---------------------------- MODULE Spec2Model ----------------------------
(***************************************************************************)
(* Four-colour map activities: the border-midpoint solver.                 *)
(*                                                                         *)
(*   - src/precompute-usa-midpoints.js : parsePath, computeTotalLength,    *)
(*     pointAtLength, computeBBox, computeBorderMidpointFromPaths and the  *)
(*     table builder of the USA activity;                                  *)
(*   - src/unnamed/part_000 : FourColorEngine (computeBorderMidpoint,      *)
(*     getBorderMidpoint, drawConflictMarkers), the continent builder and  *)
(*     the script of the generated page (paintRegion, startOver, ...).     *)
(*                                                                         *)
(* Numbers.  JavaScript numbers are modelled as fixed-point numbers: the   *)
(* integer v stands for v / Unit.  The shapes used are rectilinear or      *)
(* built from 3-4-5 triangles, so every square root taken is an integer;   *)
(* the estimator inputs are chosen so that every division made on them is  *)
(* exact (GridExact states it for the offline estimator).                  *)
(***************************************************************************)
EXTENDS Integers, Sequences, FiniteSets, TLC

VARIABLES
    pc,                   \* position of the driver of the specification at hand
    \* ---- the generated page and the engine
    regionColors,         \* regionColors[i]: colour index of region i, or Null
    solved,               \* var solved
    paletteState,         \* {selectedColorIndex, selectedEraser}
    borderMidpointCache,  \* key -> point, a function on the populated keys
    pageTable,            \* the table written into the page: var borderMidpointCache = {...}
    markers,              \* the X marks under #conflict-markers, two lines each
    localStorage,         \* the two items of the page: stateColors, completed
    estimatorCalls,       \* number of computeBorderMidpoint(a, b) calls made, per (a, b)
    returned,             \* what the last getBorderMidpoint call returned
    \* ---- canonical keys
    keyArgs, keys,
    \* ---- arc-length sampler
    arcShape, arcTarget, arcTotal, arcPt,
    \* ---- offline estimator
    estA, estB, borderPoints, mid, borderPointsRev, midRev,
    \* ---- path parser
    pathD, parsed,
    \* ---- offline table builders
    builder,              \* "continent" (build-maps.js) or "usa" (precompute script)
    mapOffset,            \* where the map of the run lies in the coordinate plane
    declared,             \* the adjacency list as declared: pairs of ids
    adjPairs,             \* the pairs the builder loops over
    midpointEntries,      \* the entries pushed, in order: key, x, y
    offlineCalls,         \* computeBorderMidpointFromPaths calls, per index pair
    buildThrew,           \* the run ended in a TypeError
    \* ---- run selection of the offline estimator
    candidates,           \* borderPoints as given to the run loop
    bestRun,              \* bestStart, bestLen, curStart, curLen after the loop
    chosen,               \* the point returned
    \* ---- runtime estimator
    rtA, rtB,             \* the outlines of the two regions
    sharedPoints,         \* the shared points pushed, in order
    rtMid,                \* the point returned
    rtMidRev,             \* the point returned for the two regions in the other order
    \* ---- the USA activity file patched by the precompute script
    fileCache,            \* the entries inside var borderMidpointCache = {...};
    \* ---- stitchRings
    mainRing, mergeRing,  \* the two rings given
    merged,               \* the ring returned, or null
    \* ---- pointer handling of the page (setupPanZoom)
    pointers,             \* pointerId -> client position, for the pointers down
    isPanning,
    startPt,              \* client position, or null
    startTarget,          \* the element of the first pointerdown, or null
    startDist,            \* square of the pinch distance at the second pointerdown, or null
    paintCall,            \* the region given to paintRegion by the last event, or null
    downAt,               \* history: where the first pointer of the gesture went down
    sawSecondPointer,     \* history: a second pointer went down in the gesture
    sawFarMove            \* history: the single pointer was seen beyond TAP_THRESHOLD

pageVars == <<regionColors, solved, paletteState, borderMidpointCache, pageTable, markers,
              localStorage, estimatorCalls, returned>>
keyVars == <<keyArgs, keys>>
arcVars == <<arcShape, arcTarget, arcTotal, arcPt>>
estVars == <<estA, estB, borderPoints, mid, borderPointsRev, midRev>>
parseVars == <<pathD, parsed>>
buildVars == <<builder, mapOffset, declared, adjPairs, midpointEntries, offlineCalls,
               buildThrew>>
runVars == <<candidates, bestRun, chosen>>
rtVars == <<rtA, rtB, sharedPoints, rtMid, rtMidRev>>
patchVars == <<fileCache>>
stitchVars == <<mainRing, mergeRing, merged>>
tapVars == <<pointers, isPanning, startPt, startTarget, startDist, paintCall, downAt,
             sawSecondPointer, sawFarMove>>
moreVars == <<patchVars, stitchVars, tapVars>>
vars == <<pc, pageVars, keyVars, arcVars, estVars, parseVars, buildVars, runVars, rtVars,
          moreVars>>

-----------------------------------------------------------------------------
(* Numbers and points *)

N == 200
threshold == 5
runLimit == 40

\* One coordinate unit in grid steps: with N / 2 steps per unit the N + 1
\* uniform samples of a unit square's perimeter (4 / N apart) and the
\* midpoints of two of them are grid points.
Unit == N \div 2

Abs(v) == IF v < 0 THEN -v ELSE v

Pt(x, y) == [x |-> x, y |-> y]

ZeroPt == Pt(0, 0)

\* null: regionColors[i] of a region that has no color, an index that was not
\* found, a variable of the page that holds nothing
Null == -1

\* A variable that holds a point or null, when it holds null
NoPt == Pt(Null, Null)

RECURSIVE SqrtSearch(_, _, _)
SqrtSearch(n, lo, hi) ==
    IF lo >= hi THEN lo
    ELSE IF ((lo + hi + 1) \div 2) * ((lo + hi + 1) \div 2) <= n
         THEN SqrtSearch(n, (lo + hi + 1) \div 2, hi)
         ELSE SqrtSearch(n, lo, (lo + hi + 1) \div 2 - 1)

\* Math.sqrt(dx * dx + dy * dy)
Hypot(dx, dy) ==
    IF dy = 0 THEN Abs(dx)
    ELSE IF dx = 0 THEN Abs(dy)
    ELSE SqrtSearch(dx * dx + dy * dy, 0, Abs(dx) + Abs(dy))

SumSq(dx, dy) == dx * dx + dy * dy

Dist2(p, q) == SumSq(p.x - q.x, p.y - q.y)

-----------------------------------------------------------------------------
(* Canonical cache keys *)

DigitChar(d) ==
    CASE d = 0 -> "0" [] d = 1 -> "1" [] d = 2 -> "2" [] d = 3 -> "3" [] d = 4 -> "4"
      [] d = 5 -> "5" [] d = 6 -> "6" [] d = 7 -> "7" [] d = 8 -> "8" [] d = 9 -> "9"

\* The decimal string of a non-negative integer, as "+" makes it of a number.
RECURSIVE NumberToString(_)
NumberToString(n) ==
    IF n < 10 THEN DigitChar(n)
    ELSE NumberToString(n \div 10) \o DigitChar(n % 10)

MathMin(a, b) == IF a <= b THEN a ELSE b
MathMax(a, b) == IF a >= b THEN a ELSE b

\* a + '-' + b: the indices as the caller gives them.
cacheKeyAsGiven(a, b) == NumberToString(a) \o "-" \o NumberToString(b)

\* getBorderMidpoint: var key = Math.min(a, b) + '-' + Math.max(a, b)
cacheKey(a, b) == NumberToString(MathMin(a, b)) \o "-" \o NumberToString(MathMax(a, b))

\* The continent builder: const key = Math.min(idxA, idxB) + '-' + Math.max(idxA, idxB)
builderKey(idxA, idxB) ==
    NumberToString(MathMin(idxA, idxB)) \o "-" \o NumberToString(MathMax(idxA, idxB))

\* The USA precompute script: the same expression.
precomputeKey(idxA, idxB) ==
    NumberToString(MathMin(idxA, idxB)) \o "-" \o NumberToString(MathMax(idxA, idxB))

-----------------------------------------------------------------------------
(* Path parser: parsePath(d) *)

\* The values of a coordinate that are not numbers: nums[k] beyond the end of
\* the operand list, and the result of arithmetic on it (or Number() of an
\* operand that is no number).
Undefined == -1000001
NaN == -1000002

IsNumber(v) == v /= Undefined /\ v /= NaN

\* a !== b
StrictNotEqual(a, b) == IF a = NaN \/ b = NaN THEN TRUE ELSE a /= b

\* nums[k], k counted from 0
Operand(nums, k) == IF k < Len(nums) THEN nums[k + 1] ELSE Undefined

\* u*u*u*p0 + 3*u*u*s*p1 + 3*u*s*s*p2 + s*s*s*p3 with s = t / 10, u = 1 - s
Bezier(t, p0, p1, p2, p3) ==
    IF IsNumber(p0) /\ IsNumber(p1) /\ IsNumber(p2) /\ IsNumber(p3)
    THEN ((10 - t) * (10 - t) * (10 - t) * p0 + 3 * (10 - t) * (10 - t) * t * p1
          + 3 * (10 - t) * t * t * p2 + t * t * t * p3) \div 1000
    ELSE NaN

\* The state of parsePath before the first match of the regular expression:
\* startPt and curPt are null (hasStart, hasCur false).
ParseStart ==
    [segments |-> <<>>, current |-> <<>>, startPt |-> ZeroPt, hasStart |-> FALSE,
     curPt |-> ZeroPt, hasCur |-> FALSE, threw |-> FALSE]

\* The ring in progress dropped when a new one is begun.
PushCurrentDropped(st) == st.segments

PushCurrent(st) ==
    IF Len(st.current) > 0 THEN Append(st.segments, st.current) ELSE st.segments

MoveTo(st, nums) ==
    [st EXCEPT !.segments = PushCurrent(st),
               !.curPt = Pt(Operand(nums, 0), Operand(nums, 1)), !.hasCur = TRUE,
               !.startPt = Pt(Operand(nums, 0), Operand(nums, 1)), !.hasStart = TRUE,
               !.current = <<Pt(Operand(nums, 0), Operand(nums, 1))>>]

LineTo(st, nums) ==
    [st EXCEPT !.curPt = Pt(Operand(nums, 0), Operand(nums, 1)), !.hasCur = TRUE,
               !.current = Append(st.current, Pt(Operand(nums, 0), Operand(nums, 1)))]

CurveSamples(p0, nums) ==
    [t \in 1..10 |->
        Pt(Bezier(t, p0.x, Operand(nums, 0), Operand(nums, 2), Operand(nums, 4)),
           Bezier(t, p0.y, Operand(nums, 1), Operand(nums, 3), Operand(nums, 5)))]

\* The C branch without its last statement, curPt = p3.
CurveToKeepsCurPt(st, nums) ==
    IF ~st.hasCur THEN [st EXCEPT !.threw = TRUE]
    ELSE [st EXCEPT !.current = st.current \o CurveSamples(st.curPt, nums)]

\* p0 = curPt; p0.x is read in the first turn of the loop: with curPt null
\* that is a TypeError, which leaves parsePath.
CurveTo(st, nums) ==
    IF ~st.hasCur THEN [st EXCEPT !.threw = TRUE]
    ELSE [st EXCEPT !.current = st.current \o CurveSamples(st.curPt, nums),
                    !.curPt = Pt(Operand(nums, 4), Operand(nums, 5))]

Closed(st) ==
    IF st.hasStart /\ Len(st.current) > 0
       /\ (\/ StrictNotEqual(st.current[Len(st.current)].x, st.startPt.x)
           \/ StrictNotEqual(st.current[Len(st.current)].y, st.startPt.y))
    THEN [st EXCEPT !.current = Append(st.current, st.startPt)]
    ELSE st

ClosePath(st) ==
    [Closed(st) EXCEPT !.segments = PushCurrent(Closed(st)), !.current = <<>>]

\* m[1].toUpperCase()
ToUpperCase(c) ==
    CASE c = "m" -> "M" [] c = "l" -> "L" [] c = "c" -> "C" [] c = "z" -> "Z"
      [] OTHER -> c

\* One turn of the while loop, for the match m = [cmd, nums].
ParseCommand(st, m) ==
    IF st.threw THEN st
    ELSE CASE ToUpperCase(m.cmd) = "M" -> MoveTo(st, m.nums)
           [] ToUpperCase(m.cmd) = "L" -> LineTo(st, m.nums)
           [] ToUpperCase(m.cmd) = "C" -> CurveTo(st, m.nums)
           [] ToUpperCase(m.cmd) = "Z" -> ClosePath(st)
           [] OTHER -> st

RECURSIVE ParseFrom(_, _, _)
ParseFrom(d, k, st) ==
    IF k > Len(d) THEN st ELSE ParseFrom(d, k + 1, ParseCommand(st, d[k]))

\* parsePath(d), d given as the successive matches of
\* /([MLCZ])\s*([-\d.,eE\s]*)/gi: the command letter, and the operands after
\* split(/[\s,]+/).map(Number).  The result: whether a TypeError left the
\* function, and else the rings returned.
parsePath(d) ==
    [threw |-> ParseFrom(d, 1, ParseStart).threw,
     segments |-> IF ParseFrom(d, 1, ParseStart).threw THEN <<>>
                  ELSE PushCurrent(ParseFrom(d, 1, ParseStart))]

-----------------------------------------------------------------------------
(* Arc-length sampler *)

RECURSIVE RingLengthFrom(_, _)
RingLengthFrom(seg, i) ==
    IF i > Len(seg) THEN 0
    ELSE Hypot(seg[i].x - seg[i - 1].x, seg[i].y - seg[i - 1].y)
         + RingLengthFrom(seg, i + 1)

RECURSIVE TotalLengthFrom(_, _)
TotalLengthFrom(segments, k) ==
    IF k > Len(segments) THEN 0
    ELSE RingLengthFrom(segments[k], 2) + TotalLengthFrom(segments, k + 1)

\* The length of all the points taken as one ring: the step from a ring to
\* the next one counted as a segment.
TotalLengthJoined(segments) ==
    IF Len(segments) = 2 THEN RingLengthFrom(segments[1] \o segments[2], 2)
    ELSE TotalLengthFrom(segments, 1)

computeTotalLength(segments) == TotalLengthFrom(segments, 1)

\* t = 0 whatever the segment: the start of the segment is returned.
InterpolateAtStart(p, dx, dy, segLen, rest) == Pt(p.x, p.y)

\* return { x: seg[i-1].x + t * dx, y: seg[i-1].y + t * dy }
\* with t = segLen > 0 ? (targetLen - acc) / segLen : 0
Interpolate(p, dx, dy, segLen, rest) ==
    IF segLen > 0
    THEN Pt(p.x + (rest * dx) \div segLen, p.y + (rest * dy) \div segLen)
    ELSE Pt(p.x, p.y)

\* The point after the two loops fall through: the last point of the last ring.
LastPointWrongRing(segments) == segments[1][Len(segments[1])]

LastPoint(segments) == segments[Len(segments)][Len(segments[Len(segments)])]

RECURSIVE WalkFrom(_, _, _, _, _)
\* if (acc + segLen > targetLen): a segment that ends exactly at targetLen is passed.
WalkStepStrict(segments, k, i, acc, targetLen, segLen) ==
    IF acc + segLen > targetLen
    THEN Interpolate(segments[k][i - 1],
                     segments[k][i].x - segments[k][i - 1].x,
                     segments[k][i].y - segments[k][i - 1].y,
                     segLen, targetLen - acc)
    ELSE WalkFrom(segments, k, i + 1, acc + segLen, targetLen)

WalkStep(segments, k, i, acc, targetLen, segLen) ==
    IF acc + segLen >= targetLen
    THEN Interpolate(segments[k][i - 1],
                     segments[k][i].x - segments[k][i - 1].x,
                     segments[k][i].y - segments[k][i - 1].y,
                     segLen, targetLen - acc)
    ELSE WalkFrom(segments, k, i + 1, acc + segLen, targetLen)

WalkFrom(segments, k, i, acc, targetLen) ==
    IF k > Len(segments) THEN LastPoint(segments)
    ELSE IF i > Len(segments[k]) THEN WalkFrom(segments, k + 1, 2, acc, targetLen)
    ELSE WalkStep(segments, k, i, acc, targetLen,
                  Hypot(segments[k][i].x - segments[k][i - 1].x,
                        segments[k][i].y - segments[k][i - 1].y))

pointAtLength(segments, totalLen, targetLen) == WalkFrom(segments, 1, 2, 0, targetLen)

-----------------------------------------------------------------------------
(* Border midpoint estimator (offline): computeBorderMidpointFromPaths *)

\* The n + 1 uniform samples pointAtLength(segments, len, len * i / n),
\* i = 0..n, as the sequence element i + 1.
Samples(segments, n) ==
    [i \in 1..(n + 1) |->
        pointAtLength(segments, computeTotalLength(segments),
                      (computeTotalLength(segments) * (i - 1)) \div n)] \o <<>>

\* if (dist < bestDist) { bestDist = dist; bestPt = ptB; }: of two scanned
\* stretches the later one wins only with a strictly smaller distance.
CloserOrLater(l, h) == IF h[1] <= l[1] THEN h ELSE l

Closer(l, h) == IF h[1] < l[1] THEN h ELSE l

\* The inner loop over j = lo..hi: <<bestDist, index of bestPt>>.
RECURSIVE NearestIn(_, _, _, _)
NearestIn(ptA, sB, lo, hi) ==
    IF lo = hi THEN <<Dist2(ptA, sB[lo]), lo>>
    ELSE Closer(NearestIn(ptA, sB, lo, (lo + hi) \div 2),
                NearestIn(ptA, sB, (lo + hi) \div 2 + 1, hi))

\* dist < threshold * threshold, in grid steps
UnderThresholdOrEqual(dist, thr) == dist <= (thr * Unit) * (thr * Unit)

UnderThreshold(dist, thr) == dist < (thr * Unit) * (thr * Unit)

\* The sample of the first outline in place of the midpoint.
MidpointAtFirst(p, q) == p

MidpointOf(p, q) == Pt((p.x + q.x) \div 2, (p.y + q.y) \div 2)

\* if (bestDist < threshold * threshold) borderPoints.push(midpoint)
Candidate(ptA, sB, nb) ==
    IF UnderThreshold(nb[1], threshold)
    THEN <<TRUE, MidpointOf(ptA, sB[nb[2]])>>
    ELSE <<FALSE, ZeroPt>>

IsCandidate(c) == c[1]

CandidatePoints(sel) == [i \in 1..Len(sel) |-> sel[i][2]]

\* The outer loop with i < N for i <= N: the last sample of A is not taken.
BorderPointsOfButLast(sA, sB) ==
    CandidatePoints(SelectSeq(
        [i \in 1..(Len(sA) - 1) |-> Candidate(sA[i], sB, NearestIn(sA[i], sB, 1, Len(sB)))],
        IsCandidate))

\* borderPoints after the outer loop over the samples of A
CandidatesOf(sA, sB) ==
    CandidatePoints(SelectSeq(
        [i \in 1..Len(sA) |-> Candidate(sA[i], sB, NearestIn(sA[i], sB, 1, Len(sB)))],
        IsCandidate))

BorderPointsOf(sA, sB) == CandidatesOf(sA, sB)

BorderPoints(segmentsA, segmentsB) ==
    BorderPointsOf(Samples(segmentsA, N), Samples(segmentsB, N))

Min(S) == CHOOSE v \in S : \A w \in S : v <= w
Max(S) == CHOOSE v \in S : \A w \in S : v >= w

ShapePoints(segments) == UNION {{segments[k][i] : i \in 1..Len(segments[k])} : k \in 1..Len(segments)}

computeBBox(segments) ==
    [x |-> Min({p.x : p \in ShapePoints(segments)}),
     y |-> Min({p.y : p \in ShapePoints(segments)}),
     width |-> Max({p.x : p \in ShapePoints(segments)}) - Min({p.x : p \in ShapePoints(segments)}),
     height |-> Max({p.y : p \in ShapePoints(segments)}) - Min({p.y : p \in ShapePoints(segments)})]

\* The point returned when borderPoints is empty.
BBoxFallback(bA, bB) ==
    Pt((bA.x + bA.width \div 2 + bB.x + bB.width \div 2) \div 2,
       (bA.y + bA.height \div 2 + bB.y + bB.height \div 2) \div 2)

\* One turn of the run loop at index i (0-based) of borderPoints.
RunExtend(bp, i, st) ==
    IF Dist2(bp[i + 1], bp[i]) < (runLimit * Unit) * (runLimit * Unit)
    THEN [st EXCEPT !.curLen = st.curLen + 1]
    ELSE [st EXCEPT !.curStart = i, !.curLen = 1]

\* The comparison with >=: of two runs of the same length the later one is kept.
RunBestOrLater(st) ==
    IF st.curLen >= st.bestLen
    THEN [st EXCEPT !.bestStart = st.curStart, !.bestLen = st.curLen]
    ELSE st

RunBest(st) ==
    IF st.curLen > st.bestLen
    THEN [st EXCEPT !.bestStart = st.curStart, !.bestLen = st.curLen]
    ELSE st

RunStep(bp, i, st) == RunBest(RunExtend(bp, i, st))

\* The turns i = lo..hi of the run loop, from the loop state st.  (The test
\* on st.curLen, always true, has the turns before lo evaluated first.)
RECURSIVE RunLoop(_, _, _, _)
RunLoop(bp, lo, hi, st) ==
    IF lo > hi \/ st.curLen < 1 THEN st
    ELSE IF lo = hi THEN RunStep(bp, lo, st)
    ELSE RunLoop(bp, (lo + hi) \div 2 + 1, hi, RunLoop(bp, lo, (lo + hi) \div 2, st))

RunInit == [bestStart |-> 0, bestLen |-> 1, curStart |-> 0, curLen |-> 1]

LongestRun(bp) == RunLoop(bp, 1, Len(bp) - 1, RunInit)

\* The start of the run taken for its middle.
MidIdxAtRunStart(run) == run.bestStart

\* The last index of the run taken for its middle.
MidIdxAtRunEnd(run) == run.bestStart + run.bestLen - 1

\* const midIdx = bestStart + Math.floor(bestLen / 2)
MidIdx(run) == run.bestStart + run.bestLen \div 2

\* What computeBorderMidpointFromPaths returns once borderPoints is filled.
MidpointFrom(bp, segmentsA, segmentsB) ==
    IF Len(bp) = 0
    THEN BBoxFallback(computeBBox(segmentsA), computeBBox(segmentsB))
    ELSE bp[MidIdx(LongestRun(bp)) + 1]

computeBorderMidpointFromPaths(segmentsA, segmentsB) ==
    MidpointFrom(BorderPoints(segmentsA, segmentsB), segmentsA, segmentsB)

-----------------------------------------------------------------------------
(* Border midpoint estimator (runtime): FourColorEngine.computeBorderMidpoint *)

runtimeN == 60
runtimeThreshold == 4
centroidLimit == 15

\* The push made once per sample of A, for the nearest sample of B, as in the
\* offline estimator.
SharedOfNearest(sA, sB) ==
    CandidatePoints(SelectSeq(
        [i \in 1..Len(sA) |->
            IF UnderThreshold(NearestIn(sA[i], sB, 1, Len(sB))[1], runtimeThreshold)
            THEN <<TRUE, MidpointOf(sA[i], sB[NearestIn(sA[i], sB, 1, Len(sB))[2]])>>
            ELSE <<FALSE, ZeroPt>>],
        IsCandidate))

\* The pairs (i, j) of the two nested loops, i outer, in the order they are
\* visited: pair k (from 1) is i = (k - 1) div (n + 1), j = (k - 1) mod (n + 1).
SharedOf(sA, sB) ==
    CandidatePoints(SelectSeq(
        [k \in 1..(Len(sA) * Len(sB)) |->
            IF UnderThreshold(Dist2(sA[((k - 1) \div Len(sB)) + 1], sB[((k - 1) % Len(sB)) + 1]),
                              runtimeThreshold)
            THEN <<TRUE, MidpointOf(sA[((k - 1) \div Len(sB)) + 1], sB[((k - 1) % Len(sB)) + 1])>>
            ELSE <<FALSE, ZeroPt>>],
        IsCandidate))

\* sx, sy after the summing loop over shared[lo..hi]
RECURSIVE SumPoints(_, _, _)
SumPoints(shared, lo, hi) ==
    IF lo = hi THEN shared[lo]
    ELSE Pt(SumPoints(shared, lo, (lo + hi) \div 2).x
              + SumPoints(shared, (lo + hi) \div 2 + 1, hi).x,
            SumPoints(shared, lo, (lo + hi) \div 2).y
              + SumPoints(shared, (lo + hi) \div 2 + 1, hi).y)

\* cx = sx / shared.length, cy = sy / shared.length
Centroid(sum, n) == Pt(sum.x \div n, sum.y \div n)

\* minDist and the index of closest after the loop over shared[lo..hi]
RECURSIVE ClosestIn(_, _, _, _)
ClosestIn(shared, c, lo, hi) ==
    IF lo = hi THEN <<Dist2(shared[lo], c), lo>>
    ELSE Closer(ClosestIn(shared, c, lo, (lo + hi) \div 2),
                ClosestIn(shared, c, (lo + hi) \div 2 + 1, hi))

\* The centroid returned whatever the distance of the closest shared point.
CentroidAlways(shared, c, best) == c

\* if (Math.sqrt(minDist) > 15) return closest; return { x: cx, y: cy }
CentroidOrClosest(shared, c, best) ==
    IF best[1] > (centroidLimit * Unit) * (centroidLimit * Unit)
    THEN shared[best[2]]
    ELSE c

RuntimeMidpointFrom(shared, pathA, pathB) ==
    IF Len(shared) = 0
    THEN BBoxFallback(computeBBox(pathA), computeBBox(pathB))
    ELSE CentroidOrClosest(shared,
            Centroid(SumPoints(shared, 1, Len(shared)), Len(shared)),
            ClosestIn(shared, Centroid(SumPoints(shared, 1, Len(shared)), Len(shared)),
                      1, Len(shared)))

\* computeBorderMidpoint on the two rendered paths: getTotalLength and
\* getPointAtLength of a path are the arc length of its rings.
computeBorderMidpointOfPaths(pathA, pathB) ==
    RuntimeMidpointFrom(SharedOf(Samples(pathA, runtimeN), Samples(pathB, runtimeN)),
                        pathA, pathB)

-----------------------------------------------------------------------------
(* Idle values of the variables a specification does not use *)

PageIdle ==
    /\ regionColors = <<>> /\ solved = FALSE /\ paletteState = <<>>
    /\ borderMidpointCache = <<>> /\ pageTable = <<>> /\ markers = <<>>
    /\ localStorage = <<>>
    /\ estimatorCalls = <<>> /\ returned = <<>>
KeyIdle == keyArgs = <<>> /\ keys = <<>>
ArcIdle == arcShape = <<>> /\ arcTarget = 0 /\ arcTotal = 0 /\ arcPt = ZeroPt
EstIdle ==
    /\ estA = <<>> /\ estB = <<>> /\ borderPoints = <<>> /\ mid = ZeroPt
    /\ borderPointsRev = <<>> /\ midRev = ZeroPt
ParseIdle == pathD = <<>> /\ parsed = <<>>
BuildIdle ==
    /\ builder = "" /\ mapOffset = 0 /\ declared = <<>> /\ adjPairs = <<>>
    /\ midpointEntries = <<>> /\ offlineCalls = <<>> /\ buildThrew = FALSE
RunIdle == candidates = <<>> /\ bestRun = <<>> /\ chosen = ZeroPt
RtIdle ==
    /\ rtA = <<>> /\ rtB = <<>> /\ sharedPoints = <<>> /\ rtMid = ZeroPt /\ rtMidRev = ZeroPt
PatchIdle == fileCache = <<>>
StitchIdle == mainRing = <<>> /\ mergeRing = <<>> /\ merged = <<>>
TapIdle ==
    /\ pointers = <<>> /\ isPanning = FALSE /\ startPt = NoPt /\ startTarget = Null
    /\ startDist = Null /\ paintCall = Null /\ downAt = NoPt
    /\ sawSecondPointer = FALSE /\ sawFarMove = FALSE
MoreIdle == PatchIdle /\ StitchIdle /\ TapIdle

-----------------------------------------------------------------------------
(* SpecArc: pointAtLength(S, computeTotalLength(S), targetLen) on small shapes *)

MaxRingLen == 3
MaxTarget == 16

\* Vertices of a 3-4-5 triangle: every segment between two of them has an
\* integer length.
ArcPoints == {Pt(0, 0), Pt(4, 0), Pt(4, 3)}

ArcRings == UNION {[1..n -> ArcPoints] : n \in 1..MaxRingLen}

\* Shapes of one ring and of two rings; no ring is empty.
ArcShapes == {<<r>> : r \in ArcRings} \cup {<<r1, r2>> : r1, r2 \in ArcRings}

ArcInit ==
    /\ pc = "arc_ready"
    /\ arcShape \in ArcShapes
    /\ arcTarget \in 0..MaxTarget
    /\ arcTotal = 0 /\ arcPt = ZeroPt
    /\ PageIdle /\ KeyIdle /\ EstIdle /\ ParseIdle /\ BuildIdle /\ RunIdle /\ RtIdle /\ MoreIdle

\* const len = computeTotalLength(segs); pointAtLength(segs, len, targetLen)
ArcQuery ==
    /\ pc = "arc_ready"
    /\ arcTotal' = computeTotalLength(arcShape)
    /\ arcPt' = pointAtLength(arcShape, computeTotalLength(arcShape), arcTarget)
    /\ pc' = "arc_done"
    /\ UNCHANGED <<arcShape, arcTarget, pageVars, keyVars, estVars, parseVars, buildVars,
                   runVars, rtVars, moreVars>>

ArcNext == ArcQuery

SpecArc == ArcInit /\ [][ArcNext]_vars

\* The ring's points are not all the same point.
RingHasLength(ring) == \E i \in 2..Len(ring) : ring[i] /= ring[i - 1]

FinalPoint(shape) == shape[Len(shape)][Len(shape[Len(shape)])]

\* C9: with targetLen greater than the total length, pointAtLength returns the
\* last point of the last ring (and TLC meets no index out of bounds on the way).
C9_BeyondTotalIsLastPoint ==
    (pc = "arc_done" /\ arcTarget > arcTotal) => arcPt = FinalPoint(arcShape)

C9_Witness ==
    /\ pc = "arc_done" /\ arcTarget > arcTotal /\ arcTotal > 0
    /\ Len(arcShape) = 2
    /\ arcShape[1][Len(arcShape[1])] /= FinalPoint(arcShape)
    /\ arcPt = FinalPoint(arcShape)

\* C10 as stated: at targetLen = totalLength the final point of the shape is
\* returned, for every non-empty shape.
C10_AtTotalIsFinalPoint ==
    (pc = "arc_done" /\ arcTarget = arcTotal) => arcPt = FinalPoint(arcShape)

\* C10 amended: at targetLen = totalLength the final point of the shape is
\* returned when the last ring has positive length, or when no ring before the
\* last has two or more points.
C10_AtTotalIsFinalPointOfProperShape ==
    (/\ pc = "arc_done" /\ arcTarget = arcTotal
     /\ \/ RingHasLength(arcShape[Len(arcShape)])
        \/ \A k \in 1..(Len(arcShape) - 1) : Len(arcShape[k]) = 1)
    => arcPt = FinalPoint(arcShape)

C10_Witness ==
    /\ pc = "arc_done" /\ arcTarget = arcTotal /\ arcTotal > 0
    /\ Len(arcShape) = 2
    /\ RingHasLength(arcShape[1]) /\ RingHasLength(arcShape[2])
    /\ arcShape[1][Len(arcShape[1])] /= FinalPoint(arcShape)
    /\ arcPt = FinalPoint(arcShape)

\* The length of ring seg from its first point up to its point i.
RECURSIVE PrefixLength(_, _)
PrefixLength(seg, i) ==
    IF i < 2 THEN 0
    ELSE PrefixLength(seg, i - 1)
         + Hypot(seg[i].x - seg[i - 1].x, seg[i].y - seg[i - 1].y)

\* The cumulative length of the walk up to point i of ring k.
RECURSIVE CumulativeLength(_, _, _)
CumulativeLength(shape, k, i) ==
    IF k = 1 THEN PrefixLength(shape[1], i)
    ELSE PrefixLength(shape[k - 1], Len(shape[k - 1])) + CumulativeLength(shape, k - 1, 1)
         + PrefixLength(shape[k], i)

\* C11 as stated: the point at the cumulative length of a vertex is that vertex,
\* for every vertex of every ring.
C11_RoundTripAtEveryVertex ==
    pc = "arc_done" =>
        \A k \in 1..Len(arcShape) : \A i \in 1..Len(arcShape[k]) :
            arcTarget = CumulativeLength(arcShape, k, i) => arcPt = arcShape[k][i]

\* C11 amended: the point at the cumulative length of a vertex is that vertex
\* when the walk has covered a positive length inside the vertex's own ring, and
\* for the vertices at length 0 of the first ring when that ring has a segment.
C11_RoundTripInsideRing ==
    pc = "arc_done" =>
        \A k \in 1..Len(arcShape) : \A i \in 1..Len(arcShape[k]) :
            (/\ arcTarget = CumulativeLength(arcShape, k, i)
             /\ \/ PrefixLength(arcShape[k], i) > 0
                \/ k = 1 /\ Len(arcShape[1]) >= 2)
            => arcPt = arcShape[k][i]

\* An inner vertex of the second ring, away from the end of the first ring.
C11_Witness ==
    /\ pc = "arc_done" /\ Len(arcShape) = 2 /\ Len(arcShape[2]) = 3
    /\ RingHasLength(arcShape[1])
    /\ PrefixLength(arcShape[2], 2) > 0
    /\ PrefixLength(arcShape[2], 3) > PrefixLength(arcShape[2], 2)
    /\ arcTarget = CumulativeLength(arcShape, 2, 2)
    /\ arcShape[2][2] /= arcShape[1][Len(arcShape[1])]
    /\ arcPt = arcShape[2][2]

\* The Euclidean distance of two of the points of ArcPoints: 0, 3, 4 or 5.
SegmentLength(p, q) ==
    CHOOSE d \in 0..5 : d * d = (q.x - p.x) * (q.x - p.x) + (q.y - p.y) * (q.y - p.y)

\* The sum of the lengths of the segments between consecutive points of ring.
RECURSIVE LengthWithin(_, _)
LengthWithin(ring, i) ==
    IF i > Len(ring) THEN 0
    ELSE SegmentLength(ring[i - 1], ring[i]) + LengthWithin(ring, i + 1)

\* C25: the total length is the sum, ring by ring, of the lengths of the
\* segments between consecutive points of the ring: nothing is counted from a
\* ring to the next one or from a ring's last point back to its first, a ring
\* of one point adds 0, and a shape without rings has length 0.
C25_TotalLengthWithinRings ==
    /\ computeTotalLength(<<>>) = 0
    /\ pc = "arc_done" =>
          /\ arcTotal = LengthWithin(arcShape[1], 2)
                        + (IF Len(arcShape) = 2 THEN LengthWithin(arcShape[2], 2) ELSE 0)
          /\ (\A k \in 1..Len(arcShape) : Len(arcShape[k]) = 1) => arcTotal = 0

\* An open ring of length 4 + 3 and a ring of one point away from its end.
C25_Witness ==
    /\ pc = "arc_done"
    /\ arcShape = << <<Pt(0, 0), Pt(4, 0), Pt(4, 3)>>, <<Pt(0, 0)>> >>
    /\ arcTotal = 7

-----------------------------------------------------------------------------
(* SpecEst: computeBorderMidpointFromPaths(A, B), then (B, A), on squares *)

SquareCorners(x0, y0, side) ==
    <<Pt(x0, y0), Pt(x0 + side, y0), Pt(x0 + side, y0 + side), Pt(x0, y0 + side)>>

\* The closed ring of a square from corner `start` (0..3), counter-clockwise
\* (step 1) or clockwise (step 3).
SquareRing(x0, y0, side, start, step) ==
    [i \in 1..5 |-> SquareCorners(x0, y0, side)[((start + step * (i - 1)) % 4) + 1]]

\* The square as a shape of one closed ring, from every corner in both directions.
Squares(x0, y0, side) ==
    {<<SquareRing(x0, y0, side, start, step)>> : start \in 0..3, step \in {1, 3}}

\* Squares A (0,0)-(1,1) and B (1,0)-(2,1): they share the edge x = 1.
AbuttingA == Squares(0, 0, Unit)
AbuttingB == Squares(Unit, 0, Unit)

\* Squares A (0,0)-(1,1) and B (10,0)-(11,1).
ApartA == Squares(0, 0, Unit)
ApartB == Squares(10 * Unit, 0, Unit)

\* Squares A (0,0)-(1,1) and B (6,0)-(7,1): the facing edges are 5 apart.
AtThresholdB == Squares((threshold + 1) * Unit, 0, Unit)

\* Squares of side 100, A (0,0)-(100,100) and B (100,0)-(200,100).
WideA == Squares(0, 0, 100 * Unit)
WideB == Squares(100 * Unit, 0, 100 * Unit)

\* An open path of A towards the edge x = 100 of WideB: only its last sample,
\* (95.2, 50), is within the threshold of B.
OpenA == {<< <<Pt(-480, 50 * Unit), Pt(95 * Unit + 20, 50 * Unit)>> >>}

FirstOf(S) == {CHOOSE v \in S : TRUE}

EstInputs ==
    (AbuttingA \X AbuttingB)
    \cup (ApartA \X FirstOf(ApartB))
    \cup (ApartA \X FirstOf(AtThresholdB))
    \cup (WideA \X FirstOf(WideB))
    \cup (OpenA \X FirstOf(WideB))

EstInit ==
    /\ pc = "est_ready"
    /\ \E pair \in EstInputs : estA = pair[1] /\ estB = pair[2]
    /\ borderPoints = <<>> /\ mid = ZeroPt
    /\ borderPointsRev = <<>> /\ midRev = ZeroPt
    /\ PageIdle /\ KeyIdle /\ ArcIdle /\ ParseIdle /\ BuildIdle /\ RunIdle /\ RtIdle /\ MoreIdle

\* mid = computeBorderMidpointFromPaths(A, B)
EstimateCall ==
    /\ pc = "est_ready"
    /\ borderPoints' = BorderPoints(estA, estB)
    /\ mid' = MidpointFrom(borderPoints', estA, estB)
    /\ pc' = "est_done"
    /\ UNCHANGED <<estA, estB, borderPointsRev, midRev,
                   pageVars, keyVars, arcVars, parseVars, buildVars,
                   runVars, rtVars, moreVars>>

\* midRev = computeBorderMidpointFromPaths(B, A)
EstimateSwapped ==
    /\ pc = "est_done"
    /\ borderPointsRev' = BorderPoints(estB, estA)
    /\ midRev' = MidpointFrom(borderPointsRev', estB, estA)
    /\ pc' = "est_both"
    /\ UNCHANGED <<estA, estB, borderPoints, mid,
                   pageVars, keyVars, arcVars, parseVars, buildVars,
                   runVars, rtVars, moreVars>>

EstNext == EstimateCall \/ EstimateSwapped

SpecEst == EstInit /\ [][EstNext]_vars

\* Every division the estimator makes on the inputs of SpecEst is exact.
ExactSamples(segments) == computeTotalLength(segments) % N = 0
ExactMidpoints(bp, sA, sB) ==
    \A i \in 1..Len(sA) : \A j \in 1..Len(sB) :
        UnderThreshold(Dist2(sA[i], sB[j]), threshold)
            => (sA[i].x + sB[j].x) % 2 = 0 /\ (sA[i].y + sB[j].y) % 2 = 0
ExactFallback(bA, bB) ==
    /\ bA.width % 2 = 0 /\ bB.width % 2 = 0 /\ bA.height % 2 = 0 /\ bB.height % 2 = 0
    /\ (bA.x + bA.width \div 2 + bB.x + bB.width \div 2) % 2 = 0
    /\ (bA.y + bA.height \div 2 + bB.y + bB.height \div 2) % 2 = 0
GridExact ==
    pc = "est_done" =>
        /\ ExactSamples(estA) /\ ExactSamples(estB)
        /\ ExactMidpoints(borderPoints, Samples(estA, N), Samples(estB, N))
        /\ borderPoints = <<>> => ExactFallback(computeBBox(estA), computeBBox(estB))

\* No sample of A has a sample of B at squared distance under threshold^2.
NoSamplePairUnder(sA, sB) ==
    \A i \in 1..Len(sA) : \A j \in 1..Len(sB) :
        Dist2(sA[i], sB[j]) >= (threshold * Unit) * (threshold * Unit)

\* The centre of the bounding box of a shape, doubled.
BBoxCentre2(segments) ==
    Pt(Min({p.x : p \in ShapePoints(segments)}) + Max({p.x : p \in ShapePoints(segments)}),
       Min({p.y : p \in ShapePoints(segments)}) + Max({p.y : p \in ShapePoints(segments)}))

\* p is the midpoint of the centres of the two bounding boxes.
IsBBoxCentresMidpoint(p, cA2, cB2) ==
    4 * p.x = cA2.x + cB2.x /\ 4 * p.y = cA2.y + cB2.y

FallbackIffNone(none) ==
    /\ none => IsBBoxCentresMidpoint(mid, BBoxCentre2(estA), BBoxCentre2(estB))
    /\ ~none => \E i \in 1..Len(borderPoints) : mid = borderPoints[i]

\* C4: the result is the midpoint of the two bounding-box centres exactly when
\* no sample of A has a sample of B at squared distance strictly below
\* threshold^2 (otherwise it is a recorded candidate); for the squares
\* (0,0)-(1,1) and (10,0)-(11,1) it is (5.5, 0.5).
C4_FallbackWhenNoSampleNear ==
    pc = "est_done" =>
        /\ FallbackIffNone(NoSamplePairUnder(Samples(estA, N), Samples(estB, N)))
        /\ (estA \in ApartA /\ estB \in ApartB)
              => mid = Pt((11 * Unit) \div 2, Unit \div 2)

C4_Witness ==
    /\ pc = "est_done" /\ estA \in ApartA /\ estB \in ApartB
    /\ borderPoints = <<>> /\ mid = Pt((11 * Unit) \div 2, Unit \div 2)

\* C5 as stated: for the abutting unit squares the result has x of about 1.0
\* and y of about 0.5 (here: within a tenth of a unit).
C5_AbuttingUnitSquaresMidEdge ==
    (pc = "est_done" /\ estA \in AbuttingA /\ estB \in AbuttingB)
        => /\ Abs(mid.x - Unit) <= Unit \div 10
           /\ Abs(2 * mid.y - Unit) <= Unit \div 5

\* C5 amended: for the abutting unit squares every sample of A is within the
\* threshold of B, so all N + 1 candidates form one run and the result is the
\* candidate of A's half-perimeter sample, the corner opposite to the corner
\* the ring of A starts at: that corner when it lies on the shared edge, else
\* the midpoint between it and the corner of B next to it.  So y is 0 or 1.
C5_AbuttingUnitSquaresOppositeCorner ==
    (pc = "est_done" /\ estA \in AbuttingA /\ estB \in AbuttingB)
        => /\ Len(borderPoints) = N + 1
           /\ mid = Pt((estA[1][3].x + Unit) \div 2, estA[1][3].y)
           /\ mid.y \in {0, Unit} /\ mid.x \in {Unit \div 2, Unit}

C5_Witness ==
    /\ pc = "est_done" /\ estA \in AbuttingA /\ estB \in AbuttingB
    /\ estA[1][1] = Pt(Unit, 0) /\ estA[1][2] = Pt(Unit, Unit)
    /\ mid = Pt(Unit \div 2, Unit)

\* C7 as stated: the estimator returns the same point for (A, B) and (B, A).
C7_Symmetric == pc = "est_both" => mid = midRev

\* C7 amended: the two argument orders agree on whether any candidate exists:
\* the bounding-box fallback is taken for (A, B) exactly when it is for (B, A).
C7_FallbackSymmetric ==
    pc = "est_both" => ((borderPoints = <<>>) <=> (borderPointsRev = <<>>))

C7_Witness ==
    /\ pc = "est_both" /\ estA \in WideA
    /\ borderPoints /= <<>> /\ borderPointsRev /= <<>> /\ mid /= midRev

\* Sample j of B is a nearest one to ptA by squared distance, and no sample
\* of B before it is as near.
NearestFirst(ptA, sB, j) ==
    \A h \in 1..Len(sB) :
        /\ SumSq(ptA.x - sB[j].x, ptA.y - sB[j].y) <= SumSq(ptA.x - sB[h].x, ptA.y - sB[h].y)
        /\ h < j =>
             SumSq(ptA.x - sB[j].x, ptA.y - sB[j].y) < SumSq(ptA.x - sB[h].x, ptA.y - sB[h].y)

\* The indexes i, in increasing order, of the samples of A whose sample
\* near[i] of B is at squared distance below 25.
KeptSamples(sA, sB, near) ==
    SelectSeq([i \in 1..Len(sA) |-> i] \o <<>>,
              LAMBDA i : SumSq(sA[i].x - sB[near[i]].x, sA[i].y - sB[near[i]].y)
                             < 25 * Unit * Unit)

CandidatesAre(bp, sA, sB, near, kept) ==
    /\ Len(sA) = N + 1 /\ Len(sB) = N + 1
    /\ \A i \in 1..Len(sA) : NearestFirst(sA[i], sB, near[i])
    /\ Len(bp) = Len(kept) /\ Len(bp) <= N + 1
    /\ \A k \in 1..Len(bp) :
          /\ 2 * bp[k].x = sA[kept[k]].x + sB[near[kept[k]]].x
          /\ 2 * bp[k].y = sA[kept[k]].y + sB[near[kept[k]]].y

NearestOfAll(sA, sB) == [i \in 1..Len(sA) |-> NearestIn(sA[i], sB, 1, Len(sB))[2]] \o <<>>

\* C19: with near[i] the nearest of the N + 1 samples of B to sample i of A,
\* the first one among equally near ones, the candidates are the midpoints of
\* sample i and sample near[i], for exactly the i whose squared distance to
\* near[i] is strictly below 25, in increasing order of i: at most N + 1.
C19_OneCandidatePerNearSample ==
    pc = "est_done" =>
        CandidatesAre(borderPoints, Samples(estA, N), Samples(estB, N),
                      NearestOfAll(Samples(estA, N), Samples(estB, N)),
                      KeptSamples(Samples(estA, N), Samples(estB, N),
                                  NearestOfAll(Samples(estA, N), Samples(estB, N))))

\* Squares of side 100 sharing an edge: the samples of A on the shared edge
\* give candidates, the others do not; the corner of B its ring starts and
\* ends at is sampled twice, so the nearest sample is tied for one sample of A.
C19_Witness ==
    /\ pc = "est_done" /\ estA \in WideA /\ estB \in WideB
    /\ Len(borderPoints) > 1 /\ Len(borderPoints) < N + 1
    /\ \E i \in 1..(N + 1) :
          /\ Samples(estA, N)[i] = Samples(estB, N)[1]
          /\ Samples(estA, N)[i] = Samples(estB, N)[N + 1]
          /\ \E k \in 1..Len(borderPoints) : borderPoints[k] = Samples(estA, N)[i]

-----------------------------------------------------------------------------
(* SpecParse: parsePath on short command sequences *)

MaxCommands == 3

Match(cmd, nums) == [cmd |-> cmd, nums |-> nums]

\* Commands with their operands, with operands missing, and in lower case.
Commands ==
    { Match("M", <<0, 0>>), Match("M", <<1000, 0>>),
      Match("L", <<1000, 0>>), Match("L", <<1000, 1000>>), Match("l", <<0, 0>>),
      Match("C", <<1000, 0, 1000, 1000, 0, 1000>>),
      Match("c", <<2000, 0, 2000, 2000, 3000, 1000>>),
      Match("Z", <<>>), Match("z", <<>>),
      Match("M", <<>>), Match("L", <<1000>>), Match("C", <<1000, 0>>),
      Match("L", <<NaN, 0>>) }

\* Two longer paths: a ring begun by L right after a Z, and two rings with a
\* curve, the second one left open.
LongerPaths ==
    { <<Match("M", <<0, 0>>), Match("L", <<1000, 0>>), Match("Z", <<>>),
        Match("L", <<1000, 1000>>), Match("z", <<>>)>>,
      <<Match("M", <<0, 0>>), Match("L", <<1000, 0>>), Match("M", <<1000, 0>>),
        Match("C", <<1000, 0, 1000, 1000, 0, 1000>>), Match("L", <<1000, 1000>>)>> }

PathInputs == UNION {[1..n -> Commands] : n \in 0..MaxCommands} \cup LongerPaths

ParseInit ==
    /\ pc = "parse_ready"
    /\ pathD \in PathInputs
    /\ parsed = <<>>
    /\ PageIdle /\ KeyIdle /\ ArcIdle /\ EstIdle /\ BuildIdle /\ RunIdle /\ RtIdle /\ MoreIdle

ParsePathCall ==
    /\ pc = "parse_ready"
    /\ parsed' = parsePath(pathD)
    /\ pc' = "parse_done"
    /\ UNCHANGED <<pathD, pageVars, keyVars, arcVars, estVars, buildVars,
                   runVars, rtVars, moreVars>>

ParseNext == ParsePathCall

SpecParse == ParseInit /\ [][ParseNext]_vars

\* C8: parsePath never throws: every input yields a (possibly empty) list of
\* rings.
C8_ParsePathNeverThrows == pc = "parse_done" => ~parsed.threw

\* The command letter of a match, whatever its case.
IsCmd(m, upper, lower) == m.cmd = upper \/ m.cmd = lower

\* A command that has all its operands, each a number.
FullCommand(m) ==
    /\ \A k \in 1..Len(m.nums) : IsNumber(m.nums[k])
    /\ \/ (IsCmd(m, "M", "m") \/ IsCmd(m, "L", "l")) /\ Len(m.nums) = 2
       \/ IsCmd(m, "C", "c") /\ Len(m.nums) = 6
       \/ IsCmd(m, "Z", "z") /\ Len(m.nums) = 0

\* The point a command ends at: its last two operands.
EndPoint(m) == Pt(m.nums[Len(m.nums) - 1], m.nums[Len(m.nums)])

\* The last command before command j that is not a Z (0 if there is none).
RECURSIVE LastDrawn(_, _)
LastDrawn(d, j) ==
    IF j <= 1 THEN 0
    ELSE IF IsCmd(d[j - 1], "Z", "z") THEN LastDrawn(d, j - 1) ELSE j - 1

\* The number of points of the ring under construction after commands 1..m.
RECURSIVE RingPointsAfter(_, _)
RingPointsAfter(d, m) ==
    IF m = 0 THEN 0
    ELSE IF IsCmd(d[m], "M", "m") THEN 1
    ELSE IF IsCmd(d[m], "Z", "z") THEN 0
    ELSE IF IsCmd(d[m], "L", "l") THEN RingPointsAfter(d, m - 1) + 1
    ELSE RingPointsAfter(d, m - 1) + 10

\* 1000 * v is the cubic Bezier value of p0, p1, p2, p3 at t = k / 10.
IsBezierValue(v, k, p0, p1, p2, p3) ==
    1000 * v = (10 - k) * (10 - k) * (10 - k) * p0 + 3 * (10 - k) * (10 - k) * k * p1
               + 3 * (10 - k) * k * k * p2 + k * k * k * p3

\* The last 10 points of ring are the curve of command m from p0.
EndsWithCurve(ring, p0, m) ==
    /\ Len(ring) >= 10
    /\ \A k \in 1..10 :
          /\ IsBezierValue(ring[Len(ring) - 10 + k].x, k, p0.x, m.nums[1], m.nums[3], m.nums[5])
          /\ IsBezierValue(ring[Len(ring) - 10 + k].y, k, p0.y, m.nums[2], m.nums[4], m.nums[6])
    /\ ring[Len(ring)] = Pt(m.nums[5], m.nums[6])

\* A path of complete commands that ends with a C, every C of which comes
\* after an M or an L: there is a current point when it is issued.
EndsWithCurveTo(d) ==
    /\ Len(d) >= 2
    /\ \A j \in 1..Len(d) : FullCommand(d[j])
    /\ IsCmd(d[Len(d)], "C", "c")
    /\ \A j \in 1..Len(d) :
          IsCmd(d[j], "C", "c") =>
              \E i \in 1..(j - 1) : IsCmd(d[i], "M", "m") \/ IsCmd(d[i], "L", "l")

\* C12: a C command issued at a current point P0 appends exactly 10 points to
\* the ring under construction, point k being the cubic Bezier value at k / 10
\* from P0 and the 10th the curve's end point; P0 is the end point of the
\* command drawn before, so a C right after a C starts where that one ended.
C12_CurveAppendsTenSamples ==
    (pc = "parse_done" /\ EndsWithCurveTo(pathD)) =>
        /\ ~parsed.threw
        /\ Len(parsed.segments) >= 1
        /\ Len(parsed.segments[Len(parsed.segments)]) = RingPointsAfter(pathD, Len(pathD))
        /\ RingPointsAfter(pathD, Len(pathD)) = RingPointsAfter(pathD, Len(pathD) - 1) + 10
        /\ EndsWithCurve(parsed.segments[Len(parsed.segments)],
                         EndPoint(pathD[LastDrawn(pathD, Len(pathD))]),
                         pathD[Len(pathD)])

\* M, C, C: the second curve starts at the end of the first.
C12_Witness ==
    /\ pc = "parse_done" /\ Len(pathD) = 3
    /\ pathD[1] = Match("M", <<1000, 0>>)
    /\ pathD[2] = Match("C", <<1000, 0, 1000, 1000, 0, 1000>>)
    /\ pathD[3] = Match("c", <<2000, 0, 2000, 2000, 3000, 1000>>)
    /\ Len(parsed.segments) = 1 /\ Len(parsed.segments[1]) = 21
    /\ parsed.segments[1][11] = Pt(0, 1000)
    /\ parsed.segments[1][21] = Pt(3000, 1000)

\* Every operand given to a command of d is a number.
OperandsAreNumbers(d) ==
    \A k \in 1..Len(d) : \A n \in 1..Len(d[k].nums) : IsNumber(d[k].nums[n])

\* C22: a command with too few operands contributes no point, so that with
\* every given operand a number no point of the output has a missing,
\* undefined or NaN coordinate.
C22_NoPointFromShortOperands ==
    (pc = "parse_done" /\ ~parsed.threw /\ OperandsAreNumbers(pathD)) =>
        \A r \in 1..Len(parsed.segments) : \A i \in 1..Len(parsed.segments[r]) :
            IsNumber(parsed.segments[r][i].x) /\ IsNumber(parsed.segments[r][i].y)

\* The parser state after the first k commands of d.
StateAfter(d, k) == ParseFrom(SubSeq(d, 1, k), 1, ParseStart)

RECURSIVE Flatten(_, _)
Flatten(rings, r) == IF r > Len(rings) THEN <<>> ELSE rings[r] \o Flatten(rings, r + 1)

\* All the points held after some commands: the rings pushed, then the ring in
\* progress.
PointsHeld(st) == Flatten(st.segments, 1) \o st.current

\* The points the command m appends in the state st.
AppendedBy(st, m) ==
    CASE IsCmd(m, "M", "m") \/ IsCmd(m, "L", "l") ->
            <<Pt(Operand(m.nums, 0), Operand(m.nums, 1))>>
      [] IsCmd(m, "C", "c") -> CurveSamples(st.curPt, m.nums)
      [] IsCmd(m, "Z", "z") ->
            IF /\ st.hasStart /\ Len(st.current) > 0
               /\ (\/ StrictNotEqual(st.current[Len(st.current)].x, st.startPt.x)
                   \/ StrictNotEqual(st.current[Len(st.current)].y, st.startPt.y))
            THEN <<st.startPt>> ELSE <<>>

\* C23: every command adds its points after all the points held so far; a
\* MoveTo pushes the ring in progress, when it has points, and leaves a ring
\* in progress holding its point only; the rings returned hold, in order, all
\* the points appended, and none of them is empty.
C23_NoPointLostOrReordered ==
    (pc = "parse_done" /\ ~parsed.threw) =>
        /\ \A k \in 1..Len(pathD) :
              /\ PointsHeld(StateAfter(pathD, k))
                    = PointsHeld(StateAfter(pathD, k - 1))
                        \o AppendedBy(StateAfter(pathD, k - 1), pathD[k])
              /\ IsCmd(pathD[k], "M", "m") =>
                    /\ StateAfter(pathD, k).current
                          = <<Pt(Operand(pathD[k].nums, 0), Operand(pathD[k].nums, 1))>>
                    /\ Len(StateAfter(pathD, k).segments)
                          = Len(StateAfter(pathD, k - 1).segments)
                            + (IF Len(StateAfter(pathD, k - 1).current) > 0 THEN 1 ELSE 0)
        /\ Flatten(parsed.segments, 1) = PointsHeld(StateAfter(pathD, Len(pathD)))
        /\ \A r \in 1..Len(parsed.segments) : Len(parsed.segments[r]) > 0

\* Two rings, the first pushed by the second MoveTo, the second by the end of
\* the input: 2 and 12 points.
C23_Witness ==
    /\ pc = "parse_done" /\ Len(pathD) = 5 /\ IsCmd(pathD[3], "M", "m")
    /\ Len(parsed.segments) = 2
    /\ parsed.segments[1] = <<Pt(0, 0), Pt(1000, 0)>>
    /\ Len(parsed.segments[2]) = 12
    /\ parsed.segments[2][1] = Pt(1000, 0) /\ parsed.segments[2][12] = Pt(1000, 1000)

\* C24: every ring pushed by a ClosePath ends at its own first point, and the
\* ring in progress is empty after the command.
C24_ClosedRingEndsAtItsStart ==
    (pc = "parse_done" /\ ~parsed.threw /\ OperandsAreNumbers(pathD)) =>
        \A k \in 1..Len(pathD) :
            IsCmd(pathD[k], "Z", "z") =>
                /\ StateAfter(pathD, k).current = <<>>
                /\ Len(StateAfter(pathD, k - 1).current) > 0 =>
                      LET ring == StateAfter(pathD, k).segments[Len(StateAfter(pathD, k).segments)]
                      IN  ring[Len(ring)] = ring[1]

-----------------------------------------------------------------------------
(* SpecKey: the keys of two pairs of indices *)

MaxIndex == 11

KeyInit ==
    /\ pc = "key_ready"
    /\ keyArgs \in [a : 0..MaxIndex, b : 0..MaxIndex, c : 0..MaxIndex, d : 0..MaxIndex]
    /\ keys = <<>>
    /\ PageIdle /\ ArcIdle /\ EstIdle /\ ParseIdle /\ BuildIdle /\ RunIdle /\ RtIdle /\ MoreIdle

KeyCalls ==
    /\ pc = "key_ready"
    /\ keys' = [ab |-> cacheKey(keyArgs.a, keyArgs.b),
                ba |-> cacheKey(keyArgs.b, keyArgs.a),
                cd |-> cacheKey(keyArgs.c, keyArgs.d),
                again |-> cacheKey(keyArgs.a, keyArgs.b),
                builder |-> builderKey(keyArgs.a, keyArgs.b),
                precompute |-> precomputeKey(keyArgs.a, keyArgs.b)]
    /\ pc' = "key_done"
    /\ UNCHANGED <<keyArgs, pageVars, arcVars, estVars, parseVars, buildVars,
                   runVars, rtVars, moreVars>>

KeyNext == KeyCalls

SpecKey == KeyInit /\ [][KeyNext]_vars

\* C2: the key is the smaller index, "-", the larger index, in numeric order;
\* it is the same for (a, b) and (b, a) and on a repeated call; the keys of two
\* pairs are equal exactly when the unordered pairs are; the two table builders
\* form the same key.
C2_CanonicalKey ==
    pc = "key_done" =>
        /\ keys.ab = IF keyArgs.a <= keyArgs.b
                     THEN NumberToString(keyArgs.a) \o "-" \o NumberToString(keyArgs.b)
                     ELSE NumberToString(keyArgs.b) \o "-" \o NumberToString(keyArgs.a)
        /\ keys.ab = keys.ba
        /\ keys.again = keys.ab
        /\ (keys.ab = keys.cd) <=> ({keyArgs.a, keyArgs.b} = {keyArgs.c, keyArgs.d})
        /\ keys.builder = keys.ab /\ keys.precompute = keys.ab

C2_Witness ==
    /\ pc = "key_done"
    /\ keyArgs.a = 10 /\ keyArgs.b = 9 /\ keyArgs.c = 9 /\ keyArgs.d = 10
    /\ keys.ab = "9-10" /\ keys.cd = "9-10"

-----------------------------------------------------------------------------
(* Spec: one session of a generated page on a three-region map *)

numColors == 4
markerSize == 14

MaxCalls == 2

\* COUNTRIES: three squares of side 60; region 1 lies to the right of region 0,
\* region 2 above it, and regions 1 and 2 meet at one corner only.
Regions == {0, 1, 2}
CountryPath(i) ==
    CASE i = 0 -> <<SquareRing(0, 0, 60 * Unit, 0, 1)>>
      [] i = 1 -> <<SquareRing(60 * Unit, 0, 60 * Unit, 1, 1)>>
      [] i = 2 -> <<SquareRing(0, 60 * Unit, 60 * Unit, 3, 1)>>

\* adjacency: ADJACENCY mapped to indices, each pair in the order it is listed
adjacency == << <<1, 0>>, <<0, 2>> >>

\* computeBorderMidpoint(svgEl, a, b) for every a, b, evaluated once: the
\* estimator reads only the static paths. Entry a * 3 + b + 1 is the pair (a, b).
RuntimeMidpoints ==
    [k \in 1..(Cardinality(Regions) * Cardinality(Regions)) |->
        computeBorderMidpointOfPaths(CountryPath((k - 1) \div Cardinality(Regions)),
                                     CountryPath((k - 1) % Cardinality(Regions)))] \o <<>>

computeBorderMidpoint(a, b) == RuntimeMidpoints[a * Cardinality(Regions) + b + 1]

\* Math.floor(v * 10) / 10 in place of Math.round
RoundTenthDown(v) == ((10 * v) \div Unit) * (Unit \div 10)

\* Math.round(v * 10) / 10
RoundTenth(v) == ((2 * 10 * v + Unit) \div (2 * Unit)) * (Unit \div 10)

\* The table the builder writes into the page: one entry per adjacency pair, the
\* offline estimate rounded to one decimal.
RECURSIVE SeedFrom(_)
SeedFrom(k) ==
    IF k > Len(adjacency) THEN <<>>
    ELSE (builderKey(adjacency[k][1], adjacency[k][2]) :>
            Pt(RoundTenth(computeBorderMidpointFromPaths(CountryPath(adjacency[k][1]),
                                                         CountryPath(adjacency[k][2])).x),
               RoundTenth(computeBorderMidpointFromPaths(CountryPath(adjacency[k][1]),
                                                         CountryPath(adjacency[k][2])).y)))
         @@ SeedFrom(k + 1)

midpointCacheStr == SeedFrom(1)

\* getBorderMidpoint without the cache: the estimator runs on every call.
getBorderMidpointUncached(cache, calls, a, b) ==
    [cache |-> (cacheKey(a, b) :> computeBorderMidpoint(a, b)) @@ cache,
     calls |-> [calls EXCEPT ![<<a, b>>] = @ + 1],
     pt |-> computeBorderMidpoint(a, b)]

\* getBorderMidpoint(cache, svgEl, a, b): the cache after the call, the estimator
\* invocations so far (calls, counted per argument pair), and the point returned.
\* A stored point is an object, so !cache[key] is true exactly for a missing key.
getBorderMidpoint(cache, calls, a, b) ==
    IF cacheKey(a, b) \notin DOMAIN cache
    THEN [cache |-> cache @@ (cacheKey(a, b) :> computeBorderMidpoint(a, b)),
          calls |-> [calls EXCEPT ![<<a, b>>] = @ + 1],
          pt |-> computeBorderMidpoint(a, b)]
    ELSE [cache |-> cache, calls |-> calls, pt |-> cache[cacheKey(a, b)]]

\* The test without its two null checks.
IsConflictUnchecked(colors, pair) == colors[pair[1]] = colors[pair[2]]

IsConflict(colors, pair) ==
    /\ colors[pair[1]] /= Null
    /\ colors[pair[2]] /= Null
    /\ colors[pair[1]] = colors[pair[2]]

ConflictEdges(colors) == SelectSeq(adjacency, LAMBDA pair : IsConflict(colors, pair))

\* The two lines of one X
Marker(m) ==
    [line1 |-> [x1 |-> m.x - markerSize * Unit, y1 |-> m.y - markerSize * Unit,
                x2 |-> m.x + markerSize * Unit, y2 |-> m.y + markerSize * Unit],
     line2 |-> [x1 |-> m.x + markerSize * Unit, y1 |-> m.y - markerSize * Unit,
                x2 |-> m.x - markerSize * Unit, y2 |-> m.y + markerSize * Unit]]

DrawOne(st, got) ==
    [cache |-> got.cache, calls |-> got.calls,
     markers |-> Append(st.markers, Marker(got.pt))]

RECURSIVE DrawFrom(_, _, _)
DrawFrom(edges, k, st) ==
    IF k > Len(edges) THEN st
    ELSE DrawFrom(edges, k + 1,
                  DrawOne(st, getBorderMidpoint(st.cache, st.calls, edges[k][1], edges[k][2])))

\* drawConflictMarkers: the old group is removed; a new one is appended only
\* when there is a conflict. markers = <<>> stands for "no group".
drawConflictMarkers(colors, cache, calls) ==
    DrawFrom(ConflictEdges(colors), 1, [cache |-> cache, calls |-> calls, markers |-> <<>>])

Uncolored == [i \in Regions |-> Null]

\* checkCompletion without its loop over the adjacency list
CompletesWhenColored(colors) == \A i \in Regions : colors[i] /= Null

\* checkCompletion sets solved
Completes(colors) ==
    /\ \A i \in Regions : colors[i] /= Null
    /\ \A e \in 1..Len(adjacency) : colors[adjacency[e][1]] /= colors[adjacency[e][2]]

\* The key of the unordered pair {a, b}, written out
KeyOfPair(a, b) ==
    IF a <= b THEN NumberToString(a) \o "-" \o NumberToString(b)
    ELSE NumberToString(b) \o "-" \o NumberToString(a)

NoCall == [a |-> 0, b |-> 0, pt |-> ZeroPt, called |-> FALSE, invoked |-> FALSE, absent |-> FALSE]

\* The page after its script has run with nothing in localStorage; the cache
\* is an empty object (no table was precomputed for the page) or the builder's
\* table.
Init ==
    /\ pc = "page"
    /\ regionColors = Uncolored
    /\ solved = FALSE
    /\ paletteState = [selectedColorIndex |-> 0, selectedEraser |-> FALSE]
    /\ pageTable \in {<<>>, midpointCacheStr}
    /\ borderMidpointCache = pageTable
    /\ markers = <<>>
    /\ localStorage = [stateColors |-> [saved |-> FALSE, colors |-> Uncolored],
                       completed |-> FALSE]
    /\ estimatorCalls = [p \in Regions \X Regions |-> 0]
    /\ returned = NoCall
    /\ KeyIdle /\ ArcIdle /\ EstIdle /\ ParseIdle /\ BuildIdle /\ RunIdle /\ RtIdle /\ MoreIdle

\* The variables no handler of the page writes.
otherVars == <<pageTable, keyVars, arcVars, estVars, parseVars, buildVars,
                   runVars, rtVars, moreVars>>

CallsBelowLimit == \A p \in Regions \X Regions : estimatorCalls[p] < MaxCalls

\* A caller of the engine's exported FourColorEngine.getBorderMidpoint that
\* does not keep the point
PageGetBorderMidpoint(a, b) ==
    /\ pc = "page"
    /\ CallsBelowLimit
    /\ a /= b
    /\ LET got == getBorderMidpoint(borderMidpointCache, estimatorCalls, a, b)
       IN  /\ borderMidpointCache' = got.cache
           /\ estimatorCalls' = got.calls
    /\ UNCHANGED <<pc, regionColors, solved, paletteState, markers, localStorage,
                   returned, otherVars>>

\* click on a color swatch: selectColor
SelectColor(idx) ==
    /\ pc = "page"
    /\ paletteState' = [selectedColorIndex |-> idx, selectedEraser |-> FALSE]
    /\ UNCHANGED <<pc, regionColors, solved, borderMidpointCache, markers, localStorage,
                   estimatorCalls, returned, otherVars>>

\* click on the eraser swatch: selectEraser
SelectEraser ==
    /\ pc = "page"
    /\ paletteState' = [paletteState EXCEPT !.selectedEraser = TRUE]
    /\ UNCHANGED <<pc, regionColors, solved, borderMidpointCache, markers, localStorage,
                   estimatorCalls, returned, otherVars>>

\* paintRegion(index) past its first line: the color or the eraser goes to
\* the region, the markers are redrawn, the state is saved and checked.
PaintEffect(index) ==
    /\ regionColors' = [regionColors EXCEPT ![index] =
                            IF paletteState.selectedEraser THEN Null
                            ELSE paletteState.selectedColorIndex]
    /\ LET drawn == drawConflictMarkers(regionColors', borderMidpointCache, estimatorCalls)
       IN  /\ borderMidpointCache' = drawn.cache
           /\ estimatorCalls' = drawn.calls
           /\ markers' = drawn.markers
    /\ IF ~paletteState.selectedEraser /\ Completes(regionColors')
       THEN /\ solved' = TRUE
            /\ localStorage' = [stateColors |-> [saved |-> TRUE, colors |-> regionColors'],
                                completed |-> TRUE]
       ELSE /\ solved' = solved
            /\ localStorage' = [localStorage EXCEPT
                                   !.stateColors = [saved |-> TRUE, colors |-> regionColors']]

\* paintRegion(index): nothing happens when solved
PaintRegion(index) ==
    /\ pc = "page"
    /\ CallsBelowLimit
    /\ ~solved
    /\ PaintEffect(index)
    /\ UNCHANGED <<pc, paletteState, returned, otherVars>>

\* zoom, pan and pinch end in applyViewBox, which redraws the markers
Redraw ==
    /\ pc = "page"
    /\ CallsBelowLimit
    /\ LET drawn == drawConflictMarkers(regionColors, borderMidpointCache, estimatorCalls)
       IN  /\ borderMidpointCache' = drawn.cache
           /\ estimatorCalls' = drawn.calls
           /\ markers' = drawn.markers
    /\ UNCHANGED <<pc, regionColors, solved, paletteState, localStorage, returned, otherVars>>

\* A startOver() that resets the cache with the rest of the session
CacheClearedByStartOver(cache) == <<>>

\* startOver() leaves the cache as it is
CacheAfterStartOver(cache) == cache

\* startOver(), with the redraw of resetZoom on the fresh colors
StartOver ==
    /\ pc = "page"
    /\ CallsBelowLimit
    /\ regionColors' = Uncolored
    /\ solved' = FALSE
    /\ paletteState' = [selectedColorIndex |-> 0, selectedEraser |-> FALSE]
    /\ localStorage' = [stateColors |-> [saved |-> FALSE, colors |-> Uncolored],
                        completed |-> FALSE]
    /\ LET drawn == drawConflictMarkers(regionColors',
                                        CacheAfterStartOver(borderMidpointCache),
                                        estimatorCalls)
       IN  /\ borderMidpointCache' = drawn.cache
           /\ estimatorCalls' = drawn.calls
           /\ markers' = drawn.markers
    /\ UNCHANGED <<pc, returned, otherVars>>

Next ==
    \/ \E a, b \in Regions : PageGetBorderMidpoint(a, b)
    \/ \E idx \in 0..(numColors - 1) : SelectColor(idx)
    \/ SelectEraser
    \/ \E index \in Regions : PaintRegion(index)
    \/ Redraw
    \/ StartOver

Spec == Init /\ [][Next]_vars

\* C3: an entry of borderMidpointCache, once there, keeps its point through
\* every later call, paint, erase, redraw and startOver of the session, so the
\* set of populated keys only grows.
C3_EntriesNeverChange ==
    [][\A k \in DOMAIN borderMidpointCache :
          /\ k \in DOMAIN borderMidpointCache'
          /\ borderMidpointCache'[k] = borderMidpointCache[k]]_vars

\* A session that stored an entry by a call and then started over.
C3_Witness ==
    /\ pc = "page"
    /\ \E p \in Regions \X Regions : estimatorCalls[p] = 1
    /\ DOMAIN borderMidpointCache /= {}
    /\ regionColors = Uncolored
    /\ ~localStorage.stateColors.saved

-----------------------------------------------------------------------------
(* SpecReload: sessions of the page, with the page loaded again in between *)

\* regionColors after loadState: the saved colors, or none when the item is absent
LoadedColors == IF localStorage.stateColors.saved THEN localStorage.stateColors.colors
                ELSE Uncolored

\* The page is loaded again: the script starts from its initial values and the
\* page's own table, and loadState() restores colors, markers and solved from
\* localStorage. The count of estimator calls starts again with the new cache.
Reload ==
    /\ pc = "page"
    /\ regionColors' = LoadedColors
    /\ paletteState' = [selectedColorIndex |-> 0, selectedEraser |-> FALSE]
    /\ solved' = (localStorage.stateColors.saved /\ localStorage.completed)
    /\ LET drawn == IF localStorage.stateColors.saved
                    THEN drawConflictMarkers(LoadedColors, pageTable,
                                             [p \in Regions \X Regions |-> 0])
                    ELSE [cache |-> pageTable, calls |-> [p \in Regions \X Regions |-> 0],
                          markers |-> <<>>]
       IN  /\ borderMidpointCache' = drawn.cache
           /\ estimatorCalls' = drawn.calls
           /\ markers' = drawn.markers
    /\ UNCHANGED <<pc, localStorage, returned, otherVars>>

ReloadNext == Next \/ Reload

SpecReload == Init /\ [][ReloadNext]_vars

\* The adjacency pairs whose two regions have the same color, in list order.
SameColorPairs ==
    SelectSeq(adjacency, LAMBDA pair :
        /\ regionColors[pair[1]] \in 0..(numColors - 1)
        /\ regionColors[pair[2]] \in 0..(numColors - 1)
        /\ regionColors[pair[1]] = regionColors[pair[2]])

\* C15: the markers drawn are exactly one X per adjacency pair whose two
\* regions are colored alike, at the cached point of the pair, in every state
\* of the page: none for a pair with an uncolored region, none left over.
C15_MarkersMatchConflicts ==
    pc = "page" =>
        /\ Len(markers) = Len(SameColorPairs)
        /\ \A k \in 1..Len(markers) :
              /\ KeyOfPair(SameColorPairs[k][1], SameColorPairs[k][2])
                    \in DOMAIN borderMidpointCache
              /\ markers[k] = Marker(borderMidpointCache[
                                  KeyOfPair(SameColorPairs[k][1], SameColorPairs[k][2])])

\* Both pairs were in conflict once (both keys are cached, each estimated
\* once); region 2 was painted again since: its marker is gone, the marker of
\* the pair (1, 0) is still drawn.
C15_Witness ==
    /\ pc = "page"
    /\ regionColors[0] = 2 /\ regionColors[1] = 2 /\ regionColors[2] = 3
    /\ Len(markers) = 1
    /\ pageTable = <<>> /\ DOMAIN borderMidpointCache = {"0-1", "0-2"}
    /\ estimatorCalls[<<1, 0>>] = 1 /\ estimatorCalls[<<0, 2>>] = 1

\* C16: in a page that carries the builder's table, the key of every pair of
\* the runtime adjacency list is in the cache from the start, and the runtime
\* estimator is never invoked for an adjacent pair, in either argument order,
\* whatever is painted, erased, redrawn, started over or loaded again.
C16_SeededPageNeverEstimates ==
    (pc = "page" /\ pageTable = midpointCacheStr) =>
        \A k \in 1..Len(adjacency) :
            /\ KeyOfPair(adjacency[k][1], adjacency[k][2]) \in DOMAIN borderMidpointCache
            /\ estimatorCalls[<<adjacency[k][1], adjacency[k][2]>>] = 0
            /\ estimatorCalls[<<adjacency[k][2], adjacency[k][1]>>] = 0

\* A seeded page on which both adjacent pairs are in conflict and marked.
C16_Witness ==
    /\ pc = "page" /\ pageTable = midpointCacheStr
    /\ regionColors = [i \in Regions |-> 1]
    /\ Len(markers) = Len(adjacency)
    /\ localStorage.stateColors.saved

\* Every region has one of the colors, and no two adjacent regions the same.
ProperColoring ==
    /\ \A i \in Regions : regionColors[i] \in 0..(numColors - 1)
    /\ \A e \in 1..Len(adjacency) :
          regionColors[adjacency[e][1]] # regionColors[adjacency[e][2]]

\* C29: whenever solved is true every region is colored and no adjacent pair
\* has two equal colors; and while solved is true no region changes color,
\* except that startOver uncolors all regions and leaves the solved state.
C29_SolvedIsProperAndFrozen ==
    /\ [](pc = "page" /\ solved => ProperColoring)
    /\ [][(pc = "page" /\ solved /\ regionColors' # regionColors)
             => (regionColors' = Uncolored /\ ~solved')]_vars

\* A solved page after a reload: the palette is back at its first color, which
\* is not the color painted last.
C29_Witness ==
    /\ pc = "page" /\ solved /\ localStorage.completed
    /\ regionColors[0] = 1 /\ regionColors[1] = 2 /\ regionColors[2] = 3
    /\ paletteState = [selectedColorIndex |-> 0, selectedEraser |-> FALSE]
    /\ markers = <<>>

-----------------------------------------------------------------------------
(* SpecCache: calls of getBorderMidpoint on one cache object *)

CacheInit ==
    /\ pc = "cache"
    /\ regionColors = Uncolored
    /\ solved = FALSE
    /\ paletteState = [selectedColorIndex |-> 0, selectedEraser |-> FALSE]
    /\ pageTable \in {<<>>, midpointCacheStr}
    /\ borderMidpointCache = pageTable
    /\ markers = <<>>
    /\ localStorage = [stateColors |-> [saved |-> FALSE, colors |-> Uncolored],
                       completed |-> FALSE]
    /\ estimatorCalls = [p \in Regions \X Regions |-> 0]
    /\ returned = NoCall
    /\ KeyIdle /\ ArcIdle /\ EstIdle /\ ParseIdle /\ BuildIdle /\ RunIdle /\ RtIdle /\ MoreIdle

\* getBorderMidpoint(cache, svgEl, a, b) by a caller that keeps the point;
\* invoked: the estimator ran during the call; absent: the key was missing before.
GetBorderMidpoint(a, b) ==
    /\ pc = "cache"
    /\ CallsBelowLimit
    /\ a /= b
    /\ LET got == getBorderMidpoint(borderMidpointCache, estimatorCalls, a, b)
       IN  /\ borderMidpointCache' = got.cache
           /\ estimatorCalls' = got.calls
           /\ returned' = [a |-> a, b |-> b, pt |-> got.pt, called |-> TRUE,
                           invoked |-> got.calls /= estimatorCalls,
                           absent |-> \A k \in DOMAIN borderMidpointCache :
                                         k /= KeyOfPair(a, b)]
    /\ UNCHANGED <<pc, regionColors, solved, paletteState, markers, localStorage, otherVars>>

CacheNext == \E a, b \in Regions : GetBorderMidpoint(a, b)

SpecCache == CacheInit /\ [][CacheNext]_vars

\* C1: the estimator runs at most once for an unordered pair, whichever order
\* the indices come in; a call runs it exactly when the pair's key was missing,
\* and every call returns the point stored under the pair's key.
C1_EstimatorOncePerPair ==
    pc = "cache" =>
        /\ \A a, b \in Regions : estimatorCalls[<<a, b>>] + estimatorCalls[<<b, a>>] <= 1
        /\ returned.called =>
              /\ returned.invoked <=> returned.absent
              /\ KeyOfPair(returned.a, returned.b) \in DOMAIN borderMidpointCache
              /\ returned.pt = borderMidpointCache[KeyOfPair(returned.a, returned.b)]

\* A call that found the entry stored by an earlier call with the indices in
\* the other order.
C1_Witness ==
    /\ pc = "cache"
    /\ returned.called
    /\ ~returned.invoked
    /\ estimatorCalls[<<returned.b, returned.a>>] = 1

-----------------------------------------------------------------------------
(* SpecBuild: one run of an offline table builder on a map of three regions *)

MaxPairs == 2

\* countryData / states: the ids of the regions, in index order (index 0 first)
CountryIds == <<"pt", "es", "fr">>

\* The ids a declared pair may name; "xx" is no region of the map.
DeclaredIds == {"pt", "es", "fr", "xx"}

\* The position of an id in the order sort() puts strings in.
IdRank(id) == CASE id = "es" -> 1 [] id = "fr" -> 2 [] id = "pt" -> 3 [] id = "xx" -> 4

\* countryData.find(c => c.id === id)
HasCountry(id) == \E i \in 1..Len(CountryIds) : CountryIds[i] = id

\* countryIndexLookup[id] / stateIndex[id]
countryIndexLookup(id) ==
    IF HasCountry(id) THEN (CHOOSE i \in 1..Len(CountryIds) : CountryIds[i] = id) - 1
    ELSE Undefined

\* [pair[0], pair[1]].sort().join('-')
DedupKey(pair) ==
    IF IdRank(pair[1]) <= IdRank(pair[2]) THEN pair[1] \o "-" \o pair[2]
    ELSE pair[2] \o "-" \o pair[1]

\* The deduplication loop of the continent builder, from declared pair k on.
RECURSIVE DedupFrom(_, _, _, _)
DedupFrom(list, k, adjSet, pairs) ==
    IF k > Len(list) THEN pairs
    ELSE IF DedupKey(list[k]) \in adjSet THEN DedupFrom(list, k + 1, adjSet, pairs)
    ELSE DedupFrom(list, k + 1, adjSet \cup {DedupKey(list[k])},
                   IF HasCountry(list[k][1]) /\ HasCountry(list[k][2])
                   THEN Append(pairs, list[k]) ELSE pairs)

\* adjPairs of the continent builder
ContinentPairs(list) == DedupFrom(list, 1, {}, <<>>)

\* adjPairs of the USA script: every pair the regular expression finds
UsaPairs(list) == list

\* The paths of the map, moved by off along both axes.
BuildPath(off, i) ==
    CASE i = 0 -> <<SquareRing(off, off, 60 * Unit, 0, 1)>>
      [] i = 1 -> <<SquareRing(off + 60 * Unit, off, 60 * Unit, 1, 1)>>
      [] i = 2 -> <<SquareRing(off, off + 60 * Unit, 60 * Unit, 3, 1)>>

OffsetList == <<5, 13, -6005>>

BuildOffsets == {OffsetList[n] : n \in 1..Len(OffsetList)}

\* The index pairs the loop can meet: two different countries, in either order.
IndexPairs == <<<<0, 1>>, <<0, 2>>, <<1, 0>>, <<1, 2>>, <<2, 0>>, <<2, 1>>>>

\* computeBorderMidpointFromPaths(parsedPaths[a], parsedPaths[b]) for every map
\* and every two different regions, evaluated once.
OfflineMidpoints ==
    [k \in 1..(Len(OffsetList) * Len(IndexPairs)) |->
        computeBorderMidpointFromPaths(
            BuildPath(OffsetList[((k - 1) \div Len(IndexPairs)) + 1],
                      IndexPairs[((k - 1) % Len(IndexPairs)) + 1][1]),
            BuildPath(OffsetList[((k - 1) \div Len(IndexPairs)) + 1],
                      IndexPairs[((k - 1) % Len(IndexPairs)) + 1][2]))] \o <<>>

OffsetIndex(off) == CHOOSE n \in 1..Len(OffsetList) : OffsetList[n] = off

PairIndex(a, b) == CHOOSE n \in 1..Len(IndexPairs) : IndexPairs[n] = <<a, b>>

OfflineMidpoint(off, a, b) ==
    OfflineMidpoints[(OffsetIndex(off) - 1) * Len(IndexPairs) + PairIndex(a, b)]

\* One turn of the midpointEntries loop: the entry pushed.
EntryOf(off, key, idxA, idxB) ==
    [key |-> key,
     x |-> RoundTenth(OfflineMidpoint(off, idxA, idxB).x),
     y |-> RoundTenth(OfflineMidpoint(off, idxA, idxB).y)]

NoOfflineCalls == [p \in (0..2) \X (0..2) |-> 0]

\* The midpointEntries loop from pair k on. An id that is no region has index
\* undefined and no parsed path: computeTotalLength(undefined) is a TypeError.
RECURSIVE EntriesFrom(_, _, _, _, _)
EntriesFrom(kind, off, pairs, k, st) ==
    IF k > Len(pairs) THEN st
    ELSE IF ~HasCountry(pairs[k][1]) \/ ~HasCountry(pairs[k][2])
    THEN [st EXCEPT !.threw = TRUE]
    ELSE EntriesFrom(kind, off, pairs, k + 1,
            [st EXCEPT
               !.calls[<<countryIndexLookup(pairs[k][1]), countryIndexLookup(pairs[k][2])>>]
                   = @ + 1,
               !.entries = Append(@,
                   EntryOf(off,
                           IF kind = "continent"
                           THEN builderKey(countryIndexLookup(pairs[k][1]),
                                           countryIndexLookup(pairs[k][2]))
                           ELSE precomputeKey(countryIndexLookup(pairs[k][1]),
                                              countryIndexLookup(pairs[k][2])),
                           countryIndexLookup(pairs[k][1]),
                           countryIndexLookup(pairs[k][2])))])

PairsOf(kind, list) == IF kind = "continent" THEN ContinentPairs(list) ELSE UsaPairs(list)

RunBuilder(kind, off, list) ==
    EntriesFrom(kind, off, PairsOf(kind, list), 1,
                [entries |-> <<>>, calls |-> NoOfflineCalls, threw |-> FALSE])

DeclaredPairs == {<<a, b>> : a, b \in DeclaredIds} \ {<<a, a>> : a \in DeclaredIds}

DeclaredLists == UNION {[1..n -> DeclaredPairs] : n \in 0..MaxPairs}

BuildInit ==
    /\ pc = "build_ready"
    /\ builder \in {"continent", "usa"}
    /\ mapOffset \in BuildOffsets
    /\ declared \in DeclaredLists
    /\ adjPairs = <<>> /\ midpointEntries = <<>>
    /\ offlineCalls = NoOfflineCalls /\ buildThrew = FALSE
    /\ PageIdle /\ KeyIdle /\ ArcIdle /\ EstIdle /\ ParseIdle /\ RunIdle /\ RtIdle /\ MoreIdle

\* The run of the builder, from the declared list to the entries of the table.
BuildRun ==
    /\ pc = "build_ready"
    /\ adjPairs' = PairsOf(builder, declared)
    /\ midpointEntries' = RunBuilder(builder, mapOffset, declared).entries
    /\ offlineCalls' = RunBuilder(builder, mapOffset, declared).calls
    /\ buildThrew' = RunBuilder(builder, mapOffset, declared).threw
    /\ pc' = "build_done"
    /\ UNCHANGED <<builder, mapOffset, declared, pageVars, keyVars, arcVars, estVars,
                   parseVars, runVars, rtVars, moreVars>>

BuildNext == BuildRun

SpecBuild == BuildInit /\ [][BuildNext]_vars

\* v lies on the tenths grid, at most half a tenth from w, and half a tenth
\* below w only.
IsRoundedHalfUp(v, w) ==
    /\ v % (Unit \div 10) = 0
    /\ 2 * (v - w) <= Unit \div 10
    /\ 2 * (w - v) < Unit \div 10

\* C13: every coordinate of every entry is the estimate of the entry's pair
\* rounded to one decimal, halves going up, in both builders.
C13_EntriesRoundedToTenth ==
    pc = "build_done" =>
        \A k \in 1..Len(midpointEntries) :
            /\ IsRoundedHalfUp(midpointEntries[k].x,
                               OfflineMidpoint(mapOffset, countryIndexLookup(adjPairs[k][1]),
                                               countryIndexLookup(adjPairs[k][2])).x)
            /\ IsRoundedHalfUp(midpointEntries[k].y,
                               OfflineMidpoint(mapOffset, countryIndexLookup(adjPairs[k][1]),
                                               countryIndexLookup(adjPairs[k][2])).y)

\* An entry whose estimate has a 5 in the hundredths, above and below zero.
C13_Witness ==
    /\ pc = "build_done" /\ builder = "usa" /\ mapOffset = -6005
    /\ Len(midpointEntries) = 1
    /\ OfflineMidpoint(mapOffset, countryIndexLookup(adjPairs[1][1]),
                       countryIndexLookup(adjPairs[1][2])) = Pt(-5, -3005)
    /\ midpointEntries[1].x = 0 /\ midpointEntries[1].y = -3000

\* The declared list names regions a and b as a pair, in either order.
IsDeclared(a, b) ==
    \E k \in 1..Len(declared) :
        \/ declared[k] = <<CountryIds[a + 1], CountryIds[b + 1]>>
        \/ declared[k] = <<CountryIds[b + 1], CountryIds[a + 1]>>

\* C14: in a run that ends normally the estimator is called exactly once for
\* every unordered pair of regions the list declares, and no key is pushed
\* twice.
C14_OnceForEveryDeclaredPair ==
    (pc = "build_done" /\ ~buildThrew) =>
        /\ \A a, b \in 0..2 :
              (a < b /\ IsDeclared(a, b))
                  => offlineCalls[<<a, b>>] + offlineCalls[<<b, a>>] = 1
        /\ \A i, j \in 1..Len(midpointEntries) :
              i /= j => midpointEntries[i].key /= midpointEntries[j].key

\* The same for the runs of the continent builder alone.
ContinentOnceForEveryDeclaredPair ==
    builder = "continent" => C14_OnceForEveryDeclaredPair


-----------------------------------------------------------------------------
(* SpecRun: the run loop of the offline estimator on given candidate lists *)

MaxCandidates == 8

\* Steps from one candidate to the next, along x: well below the run limit of
\* 40 units, exactly at it, above it, and backwards below it.
Gaps == {10 * Unit, runLimit * Unit, 50 * Unit, -(30 * Unit)}

RECURSIVE PointsAlong(_, _, _)
PointsAlong(x, gaps, k) ==
    IF k > Len(gaps) THEN <<Pt(x, 0)>>
    ELSE <<Pt(x, 0)>> \o PointsAlong(x + gaps[k], gaps, k + 1)

RunSelectInit ==
    /\ pc = "run_ready"
    /\ \E n \in 0..(MaxCandidates - 1) : \E gaps \in [1..n -> Gaps] :
          candidates = PointsAlong(0, gaps, 1)
    /\ bestRun = <<>> /\ chosen = ZeroPt
    /\ PageIdle /\ KeyIdle /\ ArcIdle /\ EstIdle /\ ParseIdle /\ BuildIdle /\ RtIdle /\ MoreIdle

\* The end of computeBorderMidpointFromPaths, from the filled borderPoints on.
\* (The list is not empty, so the outlines of the bounding-box fallback are
\* not read.)
RunSelect ==
    /\ pc = "run_ready"
    /\ bestRun' = LongestRun(candidates)
    /\ chosen' = MidpointFrom(candidates, <<>>, <<>>)
    /\ pc' = "run_done"
    /\ UNCHANGED <<candidates, pageVars, keyVars, arcVars, estVars, parseVars, buildVars,
                   rtVars, moreVars>>

RunNext == RunSelect

SpecRun == RunSelectInit /\ [][RunNext]_vars

\* The candidates at the 0-based indexes s .. s + l - 1 are a run: each but the
\* first is at squared distance below 40 * 40 from the one before it.
IsRun(bp, s, l) ==
    /\ s >= 0 /\ l >= 1 /\ s + l <= Len(bp)
    /\ \A t \in (s + 1)..(s + l - 1) :
          SumSq(bp[t + 1].x - bp[t].x, bp[t + 1].y - bp[t].y)
              < (40 * Unit) * (40 * Unit)

\* One outlier, five candidates 10 units apart, two more outliers; every
\* outlier is 50 units from its neighbours in the list.
FiveAndThree == PointsAlong(0, <<50 * Unit, 10 * Unit, 10 * Unit, 10 * Unit, 10 * Unit,
                                 50 * Unit, 50 * Unit>>, 1)

\* C17: the run selected is a run of the list, no run of the list is longer,
\* and no run of the same length starts at a lower index; of a run of five
\* packed candidates and three isolated ones, the run of five is selected.
C17_LongestRunLowestStart ==
    pc = "run_done" =>
        /\ IsRun(candidates, bestRun.bestStart, bestRun.bestLen)
        /\ \A s \in 0..(Len(candidates) - 1) : \A l \in 1..Len(candidates) :
              IsRun(candidates, s, l) =>
                  /\ l <= bestRun.bestLen
                  /\ (l = bestRun.bestLen => s >= bestRun.bestStart)
        /\ (candidates = FiveAndThree => bestRun.bestStart = 1 /\ bestRun.bestLen = 5)

\* The list of the example, its run of five selected.
C17_Witness ==
    /\ pc = "run_done"
    /\ candidates = FiveAndThree
    /\ bestRun.bestStart = 1 /\ bestRun.bestLen = 5

\* C18: the point returned is the candidate at index
\* bestStart + floor(bestLen / 2), an index within the selected run and within
\* the list: one of the candidates, as recorded.
C18_ResultIsMiddleOfRun ==
    pc = "run_done" =>
        LET index == bestRun.bestStart + (bestRun.bestLen \div 2)
        IN  /\ bestRun.bestStart <= index
            /\ index <= bestRun.bestStart + bestRun.bestLen - 1
            /\ index < Len(candidates)
            /\ chosen = candidates[index + 1]

\* A run of four after an outlier: index 1 + 2, the third candidate of the run.
C18_Witness ==
    /\ pc = "run_done"
    /\ Len(candidates) = 5
    /\ bestRun.bestStart = 1 /\ bestRun.bestLen = 4
    /\ chosen = candidates[4]
    /\ chosen # candidates[2] /\ chosen # candidates[5]


-----------------------------------------------------------------------------
(* SpecRt: computeBorderMidpoint on the rendered outlines of two squares *)

\* Squares of side 15, A (0,0)-(15,15) and B (15,0)-(30,15): the 61 samples
\* of each are 1 unit apart.
CloseSampledA == Squares(0, 0, 15 * Unit)
CloseSampledB == Squares(15 * Unit, 0, 15 * Unit)

\* Squares of side 60, A (0,0)-(60,60) and B (60,0)-(120,60): samples 4 apart.
SparseSampledA == Squares(0, 0, 60 * Unit)
SparseSampledB == Squares(60 * Unit, 0, 60 * Unit)

\* B (150,0)-(165,15): far from A.
FarSampledB == Squares(150 * Unit, 0, 15 * Unit)

\* An open outline of B from (60,0) by (90,0) and (90,60) to (60,60): it meets
\* the square A (0,0)-(60,60) at two of its corners only, 60 units apart.
TwoCornersB ==
    {<< <<Pt(60 * Unit, 0), Pt(90 * Unit, 0), Pt(90 * Unit, 60 * Unit),
          Pt(60 * Unit, 60 * Unit)>> >>}

RtInputs ==
    (CloseSampledA \X CloseSampledB)
    \cup (SparseSampledA \X FirstOf(SparseSampledB))
    \cup (CloseSampledA \X FirstOf(FarSampledB))
    \cup (SparseSampledA \X TwoCornersB)

RtInit ==
    /\ pc = "rt_ready"
    /\ \E pair \in RtInputs : rtA = pair[1] /\ rtB = pair[2]
    /\ sharedPoints = <<>> /\ rtMid = ZeroPt /\ rtMidRev = ZeroPt
    /\ PageIdle /\ KeyIdle /\ ArcIdle /\ EstIdle /\ ParseIdle /\ BuildIdle /\ RunIdle /\ MoreIdle

\* rtMid = computeBorderMidpoint(svgEl, a, b), pathA and pathB drawn as rtA, rtB
RuntimeEstimate ==
    /\ pc = "rt_ready"
    /\ sharedPoints' = SharedOf(Samples(rtA, runtimeN), Samples(rtB, runtimeN))
    /\ rtMid' = RuntimeMidpointFrom(sharedPoints', rtA, rtB)
    /\ pc' = "rt_done"
    /\ UNCHANGED <<rtA, rtB, rtMidRev, pageVars, keyVars, arcVars, estVars, parseVars,
                   buildVars, runVars, moreVars>>

\* rtMidRev = computeBorderMidpoint(svgEl, b, a): what a first call of
\* getBorderMidpoint(cache, svgEl, b, a) computes and stores under the same key.
RuntimeEstimateSwapped ==
    /\ pc = "rt_done"
    /\ rtMidRev' = computeBorderMidpointOfPaths(rtB, rtA)
    /\ pc' = "rt_both"
    /\ UNCHANGED <<rtA, rtB, sharedPoints, rtMid, pageVars, keyVars, arcVars, estVars,
                   parseVars, buildVars, runVars, moreVars>>

RtNext == RuntimeEstimate \/ RuntimeEstimateSwapped

SpecRt == RtInit /\ [][RtNext]_vars

\* The squared distance of sample i of A and sample j of B is below 4 * 4.
UnderRuntimeThreshold(sA, sB, i, j) ==
    SumSq(sA[i].x - sB[j].x, sA[i].y - sB[j].y) < (4 * Unit) * (4 * Unit)

\* The sample pairs (i, j) under the threshold.
PairsUnder(sA, sB) ==
    {ij \in (1..Len(sA)) \X (1..Len(sB)) : UnderRuntimeThreshold(sA, sB, ij[1], ij[2])}

\* The place of the pair ij among the pairs of U, by i and then by j.
RankIn(U, ij) ==
    Cardinality({uv \in U : uv[1] < ij[1] \/ (uv[1] = ij[1] /\ uv[2] <= ij[2])})

IsMidpointOf(p, a, b) == 2 * p.x = a.x + b.x /\ 2 * p.y = a.y + b.y

\* shared holds one point per pair of U, the midpoint of the pair, by i then j.
OnePointPerPair(shared, sA, sB, U) ==
    /\ Len(sA) = 61 /\ Len(sB) = 61
    /\ Len(shared) = Cardinality(U)
    /\ \A ij \in U : IsMidpointOf(shared[RankIn(U, ij)], sA[ij[1]], sB[ij[2]])

\* shared holds at most one point per sample of A: for the samples whose
\* closest sample of B is under the threshold, the midpoint with that sample.
OnePointPerSample(shared, sA, sB, near, kept) ==
    /\ Len(sA) = 61 /\ Len(sB) = 61
    /\ \A i \in 1..Len(sA) : NearestFirst(sA[i], sB, near[i])
    /\ Len(shared) = Len(kept) /\ Len(shared) <= 61
    /\ \A k \in 1..Len(kept) :
          Len(shared) >= k => IsMidpointOf(shared[k], sA[kept[k]], sB[near[kept[k]]])

KeptRuntime(sA, sB, near) ==
    SelectSeq([i \in 1..Len(sA) |-> i] \o <<>>,
              LAMBDA i : UnderRuntimeThreshold(sA, sB, i, near[i]))

\* C20 as stated: the runtime estimator records, for each of its 61 samples
\* of A, at most one shared point: the midpoint with the closest sample of B
\* when that one is under the threshold of 4.
C20_OneSharedPointPerSample ==
    pc = "rt_done" =>
        OnePointPerSample(sharedPoints, Samples(rtA, runtimeN), Samples(rtB, runtimeN),
                          NearestOfAll(Samples(rtA, runtimeN), Samples(rtB, runtimeN)),
                          KeptRuntime(Samples(rtA, runtimeN), Samples(rtB, runtimeN),
                                      NearestOfAll(Samples(rtA, runtimeN),
                                                   Samples(rtB, runtimeN))))

\* C20 amended: the runtime estimator takes 61 samples of each outline and
\* records one shared point for every pair of a sample of A and a sample of B
\* at squared distance strictly below 16, the midpoint of the pair, by i and
\* then j: a sample of A gives as many shared points as it has samples of B
\* under the threshold.
C20_OneSharedPointPerPair ==
    pc = "rt_done" =>
        OnePointPerPair(sharedPoints, Samples(rtA, runtimeN), Samples(rtB, runtimeN),
                        PairsUnder(Samples(rtA, runtimeN), Samples(rtB, runtimeN)))

\* Two squares of side 15 sharing an edge: more shared points than A has samples.
C20_Witness ==
    /\ pc = "rt_done" /\ rtA \in CloseSampledA /\ rtB \in CloseSampledB
    /\ Len(sharedPoints) > runtimeN + 1


\* sx, sy: the sums of the coordinates of the shared points.
SumOfShared(shared) ==
    Pt(SumPoints(shared, 1, Len(shared)).x, SumPoints(shared, 1, Len(shared)).y)

\* The division of the sums by shared.length is exact on the grid.
ExactCentroid(shared) ==
    /\ SumOfShared(shared).x % Len(shared) = 0
    /\ SumOfShared(shared).y % Len(shared) = 0

\* Shared point k is a closest one to c, and none before it is as close.
ClosestFirst(shared, c, k) ==
    \A h \in 1..Len(shared) :
        /\ SumSq(shared[k].x - c.x, shared[k].y - c.y)
              <= SumSq(shared[h].x - c.x, shared[h].y - c.y)
        /\ h < k => SumSq(shared[k].x - c.x, shared[k].y - c.y)
                        < SumSq(shared[h].x - c.x, shared[h].y - c.y)

\* p is what the estimator is to return for the shared points and their centroid c.
IsCentroidOrClosest(p, shared, c) ==
    \E k \in 1..Len(shared) :
        /\ ClosestFirst(shared, c, k)
        /\ IF SumSq(shared[k].x - c.x, shared[k].y - c.y) > (15 * Unit) * (15 * Unit)
           THEN p = shared[k]
           ELSE p = c

\* C21: with shared points (their sums divided exactly), the result is the
\* shared point closest to the centroid, the first of the equally close ones,
\* when it is farther than 15 from the centroid, and the centroid otherwise;
\* without shared points it is the midpoint of the two bounding-box centres.
C21_CentroidOrClosestShared ==
    pc = "rt_done" =>
        IF Len(sharedPoints) = 0
        THEN IsBBoxCentresMidpoint(rtMid, BBoxCentre2(rtA), BBoxCentre2(rtB))
        ELSE ExactCentroid(sharedPoints) =>
                 IsCentroidOrClosest(rtMid, sharedPoints,
                     Pt(SumOfShared(sharedPoints).x \div Len(sharedPoints),
                        SumOfShared(sharedPoints).y \div Len(sharedPoints)))

\* The outline of B meets the square A at two corners 60 apart: the centroid
\* lies between them, 30 from both; the corner met first is returned.
C21_Witness ==
    /\ pc = "rt_done" /\ rtB \in TwoCornersB
    /\ ExactCentroid(sharedPoints)
    /\ rtMid = sharedPoints[1]
    /\ \E h \in 2..Len(sharedPoints) :
          /\ sharedPoints[h] # sharedPoints[1]
          /\ SumSq(sharedPoints[h].x - SumOfShared(sharedPoints).x \div Len(sharedPoints),
                   sharedPoints[h].y - SumOfShared(sharedPoints).y \div Len(sharedPoints))
               = SumSq(rtMid.x - SumOfShared(sharedPoints).x \div Len(sharedPoints),
                       rtMid.y - SumOfShared(sharedPoints).y \div Len(sharedPoints))


\* Several different shared points are equally close to c, and closest.
TiedClosest(shared, c) ==
    \E k, h \in 1..Len(shared) :
        /\ shared[k] # shared[h]
        /\ SumSq(shared[k].x - c.x, shared[k].y - c.y) = SumSq(shared[h].x - c.x, shared[h].y - c.y)
        /\ \A g \in 1..Len(shared) :
              SumSq(shared[k].x - c.x, shared[k].y - c.y)
                  <= SumSq(shared[g].x - c.x, shared[g].y - c.y)

-----------------------------------------------------------------------------
(* SpecPatch: the USA script run on the activity file, and run once more     *)
(* after the file's US_ADJACENCY was edited                                  *)

\* The text of a table, the entries joined by commas, holds a closing brace
\* as soon as the table has an entry: every entry ends with one.
HasClosingBrace(table) == Len(table) > 0

\* /var borderMidpointCache = \{[^}]*\};/ finds the declaration when nothing
\* between its braces is a closing brace.
DeclarationFound(table) == ~HasClosingBrace(table)

\* html.replace on the declaration: the first match is replaced, and a text
\* without a match comes back as it was.
ReplaceDeclaration(table, entries) == IF DeclarationFound(table) THEN entries ELSE table

\* The file as it is in the repository before any run: an empty declaration.
PatchInit ==
    /\ pc = "patch_ready"
    /\ builder = "usa"
    /\ mapOffset \in BuildOffsets
    /\ declared \in DeclaredLists
    /\ adjPairs = <<>> /\ midpointEntries = <<>>
    /\ offlineCalls = NoOfflineCalls /\ buildThrew = FALSE
    /\ fileCache = <<>>
    /\ PageIdle /\ KeyIdle /\ ArcIdle /\ EstIdle /\ ParseIdle /\ RunIdle /\ RtIdle
    /\ StitchIdle /\ TapIdle

\* One run of the script. A TypeError in the midpointEntries loop ends the
\* process before writeFileSync.
RunPrecompute ==
    /\ pc \in {"patch_ready", "patch_edited"}
    /\ adjPairs' = PairsOf(builder, declared)
    /\ midpointEntries' = RunBuilder(builder, mapOffset, declared).entries
    /\ offlineCalls' = RunBuilder(builder, mapOffset, declared).calls
    /\ buildThrew' = RunBuilder(builder, mapOffset, declared).threw
    /\ fileCache' = IF RunBuilder(builder, mapOffset, declared).threw
                    THEN fileCache
                    ELSE ReplaceDeclaration(fileCache,
                                            RunBuilder(builder, mapOffset, declared).entries)
    /\ pc' = IF pc = "patch_ready" THEN "patch_done" ELSE "patch_rerun"
    /\ UNCHANGED <<builder, mapOffset, declared, pageVars, keyVars, arcVars, estVars,
                   parseVars, runVars, rtVars, stitchVars, tapVars>>

\* Between two runs the US_ADJACENCY array of the file gets one more pair or
\* loses its last one.
EditAdjacency ==
    /\ pc = "patch_done"
    /\ \/ \E p \in DeclaredPairs :
             Len(declared) < MaxPairs /\ declared' = Append(declared, p)
       \/ Len(declared) > 0 /\ declared' = SubSeq(declared, 1, Len(declared) - 1)
    /\ pc' = "patch_edited"
    /\ UNCHANGED <<builder, mapOffset, adjPairs, midpointEntries, offlineCalls, buildThrew,
                   pageVars, keyVars, arcVars, estVars, parseVars, runVars, rtVars, moreVars>>

PatchNext == RunPrecompute \/ EditAdjacency

SpecPatch == PatchInit /\ [][PatchNext]_vars

\* C26: after a run of the script that ends normally, the declaration of the
\* file holds exactly the table computed in that run, whether the declaration
\* was empty before the run or held the table of an earlier run.
C26_FileHoldsTableOfThisRun ==
    (pc \in {"patch_done", "patch_rerun"} /\ ~buildThrew) => fileCache = midpointEntries

-----------------------------------------------------------------------------
(* SpecStitch: stitchRings on two closed rings with a common border          *)

\* The comparison of the inner loop: both coordinates closer than 0.001.
SamePoint(p, q) == Abs(p.x - q.x) * 1000 < Unit /\ Abs(p.y - q.y) * 1000 < Unit

\* The inner loop for merge vertex p: the first index j < length - 1 of the
\* main ring that matches (indices from 0), or Null.
FirstMatch(ring, p) ==
    IF \E j \in 0..(Len(ring) - 2) : SamePoint(p, ring[j + 1])
    THEN Min({j \in 0..(Len(ring) - 2) : SamePoint(p, ring[j + 1])})
    ELSE Null

\* The outer loop from merge index i on: the pairs (i, j) pushed to
\* mergeShared and mainShared.
RECURSIVE SharedFrom(_, _, _, _)
SharedFrom(main, merge, i, acc) ==
    IF i >= Len(merge) - 1 THEN acc
    ELSE SharedFrom(main, merge, i + 1,
                    IF FirstMatch(main, merge[i + 1]) = Null THEN acc
                    ELSE [mergeShared |-> Append(acc.mergeShared, i),
                          mainShared |-> Append(acc.mainShared,
                                                FirstMatch(main, merge[i + 1]))])

SeqRange(s) == {s[k] : k \in 1..Len(s)}

\* for (i = from; i !== stop; i = (i + 1) % (ring.length - 1)) merged.push(ring[i])
RECURSIVE WalkRing(_, _, _, _)
WalkRing(ring, i, stop, acc) ==
    IF i = stop THEN acc
    ELSE WalkRing(ring, (i + 1) % (Len(ring) - 1), stop, Append(acc, ring[i + 1]))

\* The ring once both walks are done, closed with its own first point.
CloseMerged(walked) == Append(walked, walked[1])

StitchWalks(main, merge, sh) ==
    CloseMerged(
        WalkRing(merge, Max(SeqRange(sh.mergeShared)), Min(SeqRange(sh.mergeShared)),
                 Append(WalkRing(main, Max(SeqRange(sh.mainShared)),
                                 Min(SeqRange(sh.mainShared)), <<>>),
                        main[Min(SeqRange(sh.mainShared)) + 1])))

NoRing == [isNull |-> TRUE, ring |-> <<>>]

stitchRings(main, merge) ==
    LET sh == SharedFrom(main, merge, 0, [mergeShared |-> <<>>, mainShared |-> <<>>])
    IN  IF Len(sh.mainShared) < 2 THEN NoRing
        ELSE [isNull |-> FALSE, ring |-> StitchWalks(main, merge, sh)]

\* A polygon given by its corners in order, as a closed ring that starts at
\* corner r + 1, in the given order or in the opposite one.
RingFrom(corners, r, forward) ==
    [k \in 1..(Len(corners) + 1) |->
        corners[IF forward THEN ((r + k - 1) % Len(corners)) + 1
                ELSE ((r + Len(corners) - k + 1) % Len(corners)) + 1]] \o <<>>

\* Pairs of neighbouring polygons, the main one on the left: their common
\* border is the line x = 2 and has 0, 1 or 2 corners strictly inside; the
\* last two pairs have one corner or no corner in common.
NeighbourPolygons ==
    << <<<<Pt(0, 0), Pt(2 * Unit, 0), Pt(2 * Unit, 2 * Unit), Pt(0, 2 * Unit)>>,
         <<Pt(2 * Unit, 0), Pt(4 * Unit, 0), Pt(4 * Unit, 2 * Unit), Pt(2 * Unit, 2 * Unit)>>>>,
       <<<<Pt(0, 0), Pt(2 * Unit, 0), Pt(2 * Unit, Unit), Pt(2 * Unit, 2 * Unit),
           Pt(0, 2 * Unit)>>,
         <<Pt(2 * Unit, 0), Pt(4 * Unit, 0), Pt(4 * Unit, 2 * Unit), Pt(2 * Unit, 2 * Unit),
           Pt(2 * Unit, Unit)>>>>,
       <<<<Pt(0, 0), Pt(2 * Unit, 0), Pt(2 * Unit, Unit), Pt(2 * Unit, Unit + 50),
           Pt(2 * Unit, 2 * Unit), Pt(0, 2 * Unit)>>,
         <<Pt(2 * Unit, 0), Pt(4 * Unit, 0), Pt(4 * Unit, 2 * Unit), Pt(2 * Unit, 2 * Unit),
           Pt(2 * Unit, Unit + 50), Pt(2 * Unit, Unit)>>>>,
       <<<<Pt(0, 0), Pt(2 * Unit, 0), Pt(2 * Unit, 2 * Unit), Pt(0, 2 * Unit)>>,
         <<Pt(2 * Unit, 0), Pt(4 * Unit, 0), Pt(4 * Unit, -2 * Unit)>>>>,
       <<<<Pt(0, 0), Pt(2 * Unit, 0), Pt(2 * Unit, 2 * Unit), Pt(0, 2 * Unit)>>,
         <<Pt(3 * Unit, 0), Pt(4 * Unit, 0), Pt(4 * Unit, 2 * Unit)>>>> >>

\* Both rings wind the same way, as the rings of one feature collection do;
\* each starts at any of its corners.
StitchInit ==
    /\ pc = "stitch_ready"
    /\ \E n \in 1..Len(NeighbourPolygons) : \E forward \in BOOLEAN :
          /\ \E r \in 0..(Len(NeighbourPolygons[n][1]) - 1) :
                mainRing = RingFrom(NeighbourPolygons[n][1], r, forward)
          /\ \E r \in 0..(Len(NeighbourPolygons[n][2]) - 1) :
                mergeRing = RingFrom(NeighbourPolygons[n][2], r, forward)
    /\ merged = <<>>
    /\ PageIdle /\ KeyIdle /\ ArcIdle /\ EstIdle /\ ParseIdle /\ BuildIdle /\ RunIdle /\ RtIdle
    /\ PatchIdle /\ TapIdle

Stitch ==
    /\ pc = "stitch_ready"
    /\ merged' = stitchRings(mainRing, mergeRing)
    /\ pc' = "stitch_done"
    /\ UNCHANGED <<mainRing, mergeRing, pageVars, keyVars, arcVars, estVars, parseVars,
                   buildVars, runVars, rtVars, patchVars, tapVars>>

StitchNext == Stitch

SpecStitch == StitchInit /\ [][StitchNext]_vars

\* The number of vertices of the merge ring, closing duplicate left out, that
\* match a vertex of the main ring.
MatchCount(main, merge) ==
    Cardinality({i \in 1..(Len(merge) - 1) :
                    \E j \in 1..(Len(main) - 1) : SamePoint(merge[i], main[j])})

OnBoth(p) ==
    /\ \E j \in 1..Len(mainRing) : SamePoint(p, mainRing[j])
    /\ \E i \in 1..Len(mergeRing) : SamePoint(p, mergeRing[i])

\* A vertex of the common border with both of its neighbours in the main ring
\* on the common border too.
InsideSharedBorder(p) ==
    \E j \in 1..(Len(mainRing) - 1) :
        /\ mainRing[j] = p
        /\ OnBoth(p)
        /\ OnBoth(mainRing[(j % (Len(mainRing) - 1)) + 1])
        /\ OnBoth(mainRing[((j + Len(mainRing) - 3) % (Len(mainRing) - 1)) + 1])

\* C27: stitchRings returns null when fewer than 2 vertices of the merge ring
\* match the main ring; otherwise it returns a closed ring that holds every
\* vertex of both rings that is off the common border and no vertex inside
\* the common border, wherever the common stretch lies in the index order of
\* the two rings.
C27_StitchedRingKeepsOutside ==
    pc = "stitch_done" =>
        IF MatchCount(mainRing, mergeRing) < 2 THEN merged.isNull
        ELSE /\ ~merged.isNull
             /\ merged.ring[Len(merged.ring)] = merged.ring[1]
             /\ \A p \in SeqRange(mainRing) \cup SeqRange(mergeRing) :
                   ~OnBoth(p) => p \in SeqRange(merged.ring)
             /\ \A p \in SeqRange(mainRing) :
                   InsideSharedBorder(p) => p \notin SeqRange(merged.ring)

-----------------------------------------------------------------------------
(* SpecTap: the pointer handlers of the page (setupPanZoom) on a seeded page *)

TAP_THRESHOLD == 8

\* Pointers that can be down at the same time
MaxPointers == 2

PointerIds == 1..MaxPointers

\* clientX, clientY of the events, in pixels: one point at the threshold from
\* the first, one beyond it though at most 6 away along each axis
ClientPoints == {Pt(0, 0), Pt(8, 0), Pt(6, 6)}

\* e.target of a pointerdown: the path of a region, or the svg element
SvgElement == -2

Targets == {0, 1, SvgElement}

pointerCount(ptrs) == Cardinality(DOMAIN ptrs)

\* pointers[id] = pos
WithPointer(ptrs, id, pos) ==
    [i \in (DOMAIN ptrs) \cup {id} |-> IF i = id THEN pos ELSE ptrs[i]]

\* delete pointers[id]
WithoutPointer(ptrs, id) ==
    IF DOMAIN ptrs \subseteq {id} THEN <<>>
    ELSE [i \in (DOMAIN ptrs) \ {id} |-> ptrs[i]]

\* Object.keys(pointers)[0]: integer keys come in ascending order
FirstKey(ptrs) == Min(DOMAIN ptrs)

\* getPinchDistance(), squared: the first two keys
getPinchDistance(ptrs) ==
    IF pointerCount(ptrs) < 2 THEN Null
    ELSE SumSq(ptrs[FirstKey(ptrs)].x - ptrs[Min((DOMAIN ptrs) \ {FirstKey(ptrs)})].x,
               ptrs[FirstKey(ptrs)].y - ptrs[Min((DOMAIN ptrs) \ {FirstKey(ptrs)})].y)

\* A threshold test along each axis on its own
FartherOnOneAxis(p, q) ==
    Abs(p.x - q.x) > TAP_THRESHOLD \/ Abs(p.y - q.y) > TAP_THRESHOLD

\* dist2 > TAP_THRESHOLD, dist2 the square root of dx * dx + dy * dy
FartherThanTap(p, q) == SumSq(p.x - q.x, p.y - q.y) > TAP_THRESHOLD * TAP_THRESHOLD

\* applyViewBox() ends in drawConflictMarkers
RedrawEffect ==
    LET drawn == drawConflictMarkers(regionColors, borderMidpointCache, estimatorCalls)
    IN  /\ borderMidpointCache' = drawn.cache
        /\ estimatorCalls' = drawn.calls
        /\ markers' = drawn.markers

\* A page with its table seeded by the builder, no pointer down; nothing is
\* colored and the first color is selected, or regions 1 and 2 have the first
\* color and the second is selected.
TapInit ==
    /\ pc = "tap"
    /\ \/ /\ regionColors = Uncolored
          /\ paletteState = [selectedColorIndex |-> 0, selectedEraser |-> FALSE]
       \/ /\ regionColors = [i \in Regions |-> IF i = 0 THEN Null ELSE 0]
          /\ paletteState = [selectedColorIndex |-> 1, selectedEraser |-> FALSE]
    /\ solved = FALSE
    /\ pageTable = midpointCacheStr
    /\ borderMidpointCache = pageTable
    /\ markers = <<>>
    /\ localStorage = [stateColors |-> [saved |-> FALSE, colors |-> Uncolored],
                       completed |-> FALSE]
    /\ estimatorCalls = [p \in Regions \X Regions |-> 0]
    /\ returned = NoCall
    /\ KeyIdle /\ ArcIdle /\ EstIdle /\ ParseIdle /\ BuildIdle /\ RunIdle /\ RtIdle
    /\ PatchIdle /\ StitchIdle /\ TapIdle

\* pointerdown of a pointer that is not down
PointerDown(id, pos, target) ==
    /\ pc = "tap"
    /\ id \notin DOMAIN pointers
    /\ pointers' = WithPointer(pointers, id, pos)
    /\ isPanning' = CASE pointerCount(pointers') = 2 -> TRUE
                      [] pointerCount(pointers') = 1 -> FALSE
                      [] OTHER -> isPanning
    /\ startPt' = IF pointerCount(pointers') = 1 THEN pos ELSE startPt
    /\ startTarget' = IF pointerCount(pointers') = 1 THEN target ELSE startTarget
    /\ startDist' = IF pointerCount(pointers') = 2 THEN getPinchDistance(pointers')
                    ELSE startDist
    /\ paintCall' = Null
    /\ downAt' = IF pointerCount(pointers') = 1 THEN pos ELSE downAt
    /\ sawSecondPointer' = (pointerCount(pointers') > 1)
    /\ sawFarMove' = (pointerCount(pointers') > 1 /\ sawFarMove)
    /\ UNCHANGED <<pc, pageVars, keyVars, arcVars, estVars, parseVars, buildVars, runVars,
                   rtVars, patchVars, stitchVars>>

\* pointermove: a pinch with two pointers down, a pan with one once it is
\* beyond the threshold; both end in applyViewBox
PointerMove(id, pos) ==
    /\ pc = "tap"
    /\ paintCall' = Null
    /\ IF id \notin DOMAIN pointers
       THEN UNCHANGED <<pointers, isPanning, sawFarMove, borderMidpointCache, estimatorCalls,
                        markers>>
       ELSE /\ pointers' = WithPointer(pointers, id, pos)
            /\ sawFarMove' = \/ sawFarMove
                             \/ /\ ~sawSecondPointer
                                /\ SumSq(pos.x - downAt.x, pos.y - downAt.y)
                                      > TAP_THRESHOLD * TAP_THRESHOLD
            /\ IF pointerCount(pointers') = 2 /\ startDist # Null /\ startDist # 0
               THEN /\ isPanning' = isPanning
                    /\ IF getPinchDistance(pointers') # 0 THEN RedrawEffect
                       ELSE UNCHANGED <<borderMidpointCache, estimatorCalls, markers>>
               ELSE IF pointerCount(pointers') = 1 /\ startPt # NoPt
               THEN /\ isPanning' = (isPanning \/ FartherThanTap(pos, startPt))
                    /\ IF isPanning' THEN RedrawEffect
                       ELSE UNCHANGED <<borderMidpointCache, estimatorCalls, markers>>
               ELSE UNCHANGED <<isPanning, borderMidpointCache, estimatorCalls, markers>>
    /\ UNCHANGED <<pc, regionColors, solved, paletteState, pageTable, localStorage, returned,
                   startPt, startTarget, startDist, downAt, sawSecondPointer,
                   keyVars, arcVars, estVars, parseVars, buildVars, runVars, rtVars,
                   patchVars, stitchVars>>

\* onPointerEnd, the handler of pointerup and of pointercancel
PointerEnd(id) ==
    /\ pc = "tap"
    /\ IF id \notin DOMAIN pointers
       THEN /\ paintCall' = Null
            /\ UNCHANGED <<pointers, isPanning, startPt, startTarget, startDist,
                           regionColors, borderMidpointCache, estimatorCalls, markers,
                           solved, localStorage>>
       ELSE /\ IF /\ pointerCount(pointers) = 1 /\ ~isPanning /\ startTarget # Null
                  /\ startTarget \in Regions
               THEN /\ paintCall' = startTarget
                    /\ IF solved
                       THEN UNCHANGED <<regionColors, borderMidpointCache, estimatorCalls,
                                        markers, solved, localStorage>>
                       ELSE PaintEffect(startTarget)
               ELSE /\ paintCall' = Null
                    /\ UNCHANGED <<regionColors, borderMidpointCache, estimatorCalls,
                                   markers, solved, localStorage>>
            /\ pointers' = WithoutPointer(pointers, id)
            /\ CASE pointerCount(pointers') = 0 ->
                       /\ isPanning' = FALSE /\ startPt' = NoPt
                       /\ startTarget' = Null /\ startDist' = Null
                 [] pointerCount(pointers') = 1 ->
                       /\ startDist' = Null
                       /\ startPt' = pointers'[FirstKey(pointers')]
                       /\ isPanning' = TRUE
                       /\ startTarget' = startTarget
                 [] OTHER -> UNCHANGED <<isPanning, startPt, startTarget, startDist>>
    /\ UNCHANGED <<pc, paletteState, pageTable, returned, downAt, sawSecondPointer,
                   sawFarMove, keyVars, arcVars, estVars, parseVars, buildVars, runVars,
                   rtVars, patchVars, stitchVars>>

TapNext ==
    \/ \E id \in PointerIds, pos \in ClientPoints, target \in Targets :
          PointerDown(id, pos, target)
    \/ \E id \in PointerIds, pos \in ClientPoints : PointerMove(id, pos)
    \/ \E id \in PointerIds : PointerEnd(id)

SpecTap == TapInit /\ [][TapNext]_vars

\* C30: whatever the order of the pointer events, paintRegion is called, and a
\* region painted, only by the release of the only pointer that is down, in
\* a gesture in which no second pointer went down and the pointer was never
\* seen farther than TAP_THRESHOLD from where it went down.
C30_PaintOnlyAtEndOfTap ==
    [][(pc = "tap" /\ (paintCall' # Null \/ regionColors' # regionColors))
          => /\ pointerCount(pointers) = 1 /\ pointers' = <<>>
             /\ ~sawSecondPointer /\ ~sawFarMove]_vars

\* A tap on region 0 that went down at (6, 6) has painted it.
C30_Witness ==
    /\ pc = "tap" /\ paintCall = 0 /\ regionColors[0] = paletteState.selectedColorIndex
    /\ pointers = <<>> /\ downAt = Pt(6, 6) /\ ~sawSecondPointer /\ ~sawFarMove

=============================================================================
